---- MODULE Spec2Model ----
(***************************************************************************)
(* A model of the replication engine of zfs_sync: the command runners      *)
(* (app/utils.py and zfs_sync_lib/utils.py), the snapshot inspector and    *)
(* planner (zfs_sync_lib/zfs.py, zfs_sync.py), the job runner run_job, the *)
(* pipeline executor and the stderr readers (zfs_sync_lib/transfer.py,     *)
(* app/transfer.py).                                                       *)
(*                                                                         *)
(* The module holds several specifications over disjoint groups of         *)
(* variables; each specification keeps the other groups at their idle      *)
(* value:                                                                  *)
(*   SpecCmd    - sequences of calls of execute_command (app/utils.py)     *)
(*   SpecPlan   - find_verified_common_snapshots and the planning step     *)
(*   SpecJob    - runs of run_job against a source and a destination pool  *)
(*   SpecPipe   - execute_transfer_pipeline and its stage processes        *)
(*   SpecReader - the stderr reader threads, the diagnostic stream and the *)
(*                executor's close of the pipe                             *)
(*   SpecSize   - the size parser _parse_zfs_size                          *)
(*   SpecTui    - TransferScreen.run_transfer_worker and the quit request  *)
(*   SpecRunners - behaviours of either runner, run_job or the worker      *)
(*   SpecMain   - main of zfs_sync.py, the loop over the selected jobs     *)
(*   SpecScreen - progress of a transfer on TransferScreen: the worker,    *)
(*                the reader thread and the message handlers               *)
(*   SpecList   - get_snapshots_with_guids on listings with child datasets *)
(*   SpecPipeFair, SpecTuiFair - SpecPipe and SpecTui with weak fairness   *)
(***************************************************************************)
EXTENDS Integers, Sequences, FiniteSets, TLC

VARIABLES
    \* --- SpecCmd: app/utils.py execute_command
    c_config,       \* the config dict: DRY_RUN and the job-level dry_run entry
    c_calls,        \* number of calls made so far
    c_last,         \* the last call: its arguments and what it returned or raised
    \* --- SpecPlan: find_verified_common_snapshots / planning
    p_src,          \* source dict name -> guid, in insertion order
    p_dst,          \* destination dict name -> guid, in insertion order
    p_dest_exists,  \* answer of has_dataset for the destination
    p_common,       \* result of find_verified_common_snapshots (or none yet)
    p_plan1,        \* plan of the first planning pass (or none yet)
    p_plan2,        \* plan of a second pass over the same maps (or none yet)
    \* --- SpecJob: run_job of zfs_sync.py against two pools
    j_cfg,          \* the job config: hosts, recursive, use_compression, ...
    j_src,          \* source dataset: exists, snapshots in creation order
    j_dst,          \* destination dataset: exists, snapshots, resume token
    j_next_guid,    \* the guid the next created snapshot gets
    j_clock,        \* the second datetime.now() falls in
    j_runs,         \* runs of run_job started so far
    j_faults,       \* commands that failed for an outside reason so far
    j_pc,           \* position of the current run
    j_dry,          \* DRY_RUN and dry_run of the current run
    j_start,        \* the pools as the current run found them
    j_dest_exists,  \* dest_exists of the current run
    j_common,       \* common_snapshots of the current run
    j_plan,         \* needs_initial_transfer / sync_snapshot_src
    j_new,          \* new_snapshot_name of the current run
    j_pipeline,     \* the pipeline handed to execute_transfer_pipeline
    j_success,      \* transfer_success of the current run
    j_spawned,      \* kinds of process started in the current run
    j_result,       \* what the current run returned
    j_reason,       \* where the current run ended
    j_first,        \* how the first run of the behaviour went
    j_dryrec,       \* the pipeline the last dry run logged, and its start state
    \* --- SpecPipe: execute_transfer_pipeline of zfs_sync_lib/transfer.py
    x_stages,       \* len(pipeline_cmds)
    x_dry_run,      \* dry_run of the call
    x_pc,           \* position of the executor
    x_i,            \* index of the loop the executor is in
    x_processes,    \* per stage: state and return code of its process
    x_final_return_code,
    x_success,      \* what the call returns
    x_stderr_thread,\* the reader thread: none, alive or done
    x_handles,      \* per stage: the parent's handles on its stdout and stderr pipes
    \* --- SpecReader: _process_zfs_stderr, both variants
    r_variant,      \* "lib" (zfs_sync_lib/transfer.py) or "app" (app/transfer.py)
    r_stream,       \* the lines still to be read
    r_total_size,   \* the known total, or -1
    r_pc,           \* position of the reader
    r_total_bytes_reported,
    r_completed,    \* completed of the progress display
    r_parsed,       \* the values parsed so far, in stream order
    r_updates,      \* the completed values of the updates made for lines
    r_final,         \* the completed values of the end-of-stream updates
    r_closed,       \* the executor has closed the pipe object
    \* --- SpecSize: _parse_zfs_size, both variants
    z_variant,      \* "lib" (zfs_sync_lib/transfer.py) or "app" (app/transfer.py)
    z_input,        \* size_str, a sequence of characters
    z_pc,           \* "call" before the call, "done" after it
    z_result,        \* what the call gave: a value, or the error it raised
    \* --- SpecTui: TransferScreen.run_transfer_worker and the screen
    t_cfg,          \* DRY_RUN of the app config, dry_run and hosts of the job
    t_pc,           \* position of the worker
    t_issued,       \* the commands handed to execute_command or Popen so far
    t_src_exists,   \* src_exists of the worker: "none", "true" or "false"
    t_snap_success, \* snap_success of the worker: "none", "true" or "false"
    t_success,      \* success of the worker
    t_prune,        \* the prune step: "none", "ok", "failed" or "skipped"
    t_proc,         \* the syncoid process: none, running, exited, terminated
    t_rc,           \* its return code
    t_posted,       \* the TransferFinished message: "none", "true" or "false"
    t_finished,     \* transfer_finished of the screen
    t_transfer_success, \* transfer_success of the screen
    t_quit,         \* action_request_quit has run
    t_quit_running, \* the syncoid process was running when it ran
    \* --- SpecMain: zfs_sync.py main, the loop over the selected jobs
    m_jobs,         \* jobs_to_run: the hosts of each selected job
    m_dry,          \* config['DRY_RUN']
    m_i,            \* index of the job the loop is at
    m_pc,           \* position: off, loop, verify_source, verify_dest, body, ended
    m_results,      \* what run_job returned, one entry per call that returned
    m_overall_success, \* overall_success of main
    m_exit,         \* the exit of the process: "none", or its code and who exited
    \* --- SpecScreen: perform_transfer, the stderr reader thread and the
    \* message handlers of TransferScreen
    u_dry,          \* dry_run of perform_transfer's run_config
    u_pipe,         \* progress lines of syncoid's stderr not yet read
    u_closed,       \* the stderr pipe object has been closed
    u_w_pc,         \* position of the worker
    u_rc,           \* return code of syncoid
    u_success,      \* success of perform_transfer
    u_r_pc,         \* position of the reader thread: off, loop, eof, done, died
    u_reported,     \* total_bytes_reported of the reader thread
    u_queue,        \* messages posted to the screen and not yet handled
    u_events,       \* every ProgressUpdate posted, in posting order, and by what
    u_ui,           \* the reactive attributes of the screen
    u_extra,        \* SSH_EXTRA_OPTIONS of the config: an ssh option, or none
    u_spawned,      \* argv of every command handed to a process, in order
    \* --- SpecList: get_snapshots_with_guids on a listing with child datasets
    l_src,          \* the source pool: guid of each snapshot of each dataset listed
    l_dst,          \* the destination pool, likewise
    l_pc,           \* "call" before find_verified_common_snapshots, "done" after
    l_common        \* the list it returned

cmdVars  == <<c_config, c_calls, c_last>>
planVars == <<p_src, p_dst, p_dest_exists, p_common, p_plan1, p_plan2>>
jobVars  == <<j_cfg, j_src, j_dst, j_next_guid, j_clock, j_runs, j_faults, j_pc,
              j_dry, j_start, j_dest_exists, j_common, j_plan, j_new,
              j_pipeline, j_success, j_spawned, j_result, j_reason,
              j_first, j_dryrec>>
pipeVars == <<x_stages, x_dry_run, x_pc, x_i, x_processes, x_final_return_code,
              x_success, x_stderr_thread, x_handles>>
readerVars == <<r_variant, r_stream, r_total_size, r_pc, r_total_bytes_reported,
                r_completed, r_parsed, r_updates, r_final, r_closed>>
sizeVars == <<z_variant, z_input, z_pc, z_result>>
tuiVars  == <<t_cfg, t_pc, t_issued, t_src_exists, t_snap_success, t_success, t_prune,
              t_proc, t_rc, t_posted, t_finished, t_transfer_success,
              t_quit, t_quit_running>>
mainVars == <<m_jobs, m_dry, m_i, m_pc, m_results, m_overall_success, m_exit>>
screenVars == <<u_dry, u_pipe, u_closed, u_w_pc, u_rc, u_success, u_r_pc, u_reported,
                u_queue, u_events, u_ui, u_extra, u_spawned>>
listVars == <<l_src, l_dst, l_pc, l_common>>
vars     == <<cmdVars, planVars, jobVars, pipeVars, readerVars, sizeVars, tuiVars, mainVars, screenVars, listVars>>

-----------------------------------------------------------------------------
(* General helpers *)

Contains(seq, x) == \E i \in DOMAIN seq : seq[i] = x

Range(seq) == { seq[i] : i \in DOMAIN seq }

\* a plan, or a result list, that has not been computed yet
NoPlan == [mode |-> "NotRun", base |-> <<>>]

NoList == [done |-> FALSE, list |-> <<>>]

-----------------------------------------------------------------------------
(* Bounds *)

\* calls of execute_command in one behaviour of SpecCmd
MaxCalls == 2

\* entries of one name -> guid dict in SpecPlan
MaxSnaps == 3

\* runs of run_job in one behaviour of SpecJob
MaxRuns == 2

\* commands that fail for an outside reason in one behaviour of SpecJob
MaxFaults == 1

\* largest max_snapshots of a job config in SpecJob
MaxKeep == 3

\* stages of a pipeline in SpecPipe
MaxStages == 3

\* lines of a diagnostic stream in SpecReader
MaxLines == 3

\* largest size value of a line, and largest known total, in SpecReader
MaxValue == 3

\* longest drawn input string in SpecSize
MaxLen == 3

-----------------------------------------------------------------------------
(* ---------------- app/utils.py : execute_command ---------------- *)

\* os.path.basename on the executables the callers pass
Basename(path) ==
    CASE path = "libs/sanoid/sanoid"  -> "sanoid"
      [] path = "libs/sanoid/syncoid" -> "syncoid"
      [] path = "/sbin/zfs"           -> "zfs"
      [] OTHER                        -> path

read_only_zfs == {"list", "get", "version"}
action_zfs    == {"snapshot", "destroy", "send", "receive", "rename"}
action_sanoid == {"--take-snapshots", "--prune-snapshots"}

\* command_args[1] if len(command_args) > 1 else None
Subcommand(argv) == IF Len(argv) > 1 THEN argv[2] ELSE "None"

\* the list case without the rule for unclassified zfs subcommands
IsActionListKnownOnly(argv) ==
    IF Len(argv) = 0 THEN FALSE
    ELSE LET cmd_base == Basename(argv[1]) IN
         CASE cmd_base = "zfs" -> Subcommand(argv) \in action_zfs
           [] cmd_base = "sanoid" ->
                  \E i \in DOMAIN argv : argv[i] \in action_sanoid
           [] cmd_base = "syncoid" -> ~Contains(argv, "-n")
           [] OTHER -> FALSE

\* is_action_command for a list command_args (app/utils.py 172-189)
IsActionList(argv) ==
    IF Len(argv) = 0 THEN FALSE
    ELSE LET cmd_base == Basename(argv[1]) IN
         CASE cmd_base = "zfs" ->
                  IF Subcommand(argv) \in action_zfs THEN TRUE
                  ELSE Subcommand(argv) \notin read_only_zfs
           [] cmd_base = "sanoid" ->
                  \E i \in DOMAIN argv : argv[i] \in action_sanoid
           [] cmd_base = "syncoid" -> ~Contains(argv, "-n")
           [] OTHER -> FALSE

\* is_action_command for a shell string, given as its shlex.split tokens
\* (app/utils.py 191-209)
IsActionShell(argv) ==
    IF Len(argv) = 0 THEN TRUE
    ELSE LET cmd_base == Basename(argv[1]) IN
         CASE cmd_base = "zfs" -> ~(Subcommand(argv) \in read_only_zfs)
           [] cmd_base = "sanoid" ->
                  \E i \in DOMAIN argv : argv[i] \in action_sanoid
           [] cmd_base = "syncoid" -> ~Contains(argv, "-n")
           [] OTHER -> TRUE

IsActionCommand(argv, shell) ==
    IF shell THEN IsActionShell(argv) ELSE IsActionList(argv)

\* dry_run = config.get('dry_run', config.get('DRY_RUN', False))
AppDryRun(config) ==
    IF config.dry_run # "absent" THEN config.dry_run = "true" ELSE config.DRY_RUN

\* What one call does: whether subprocess.run is reached (executed) or the
\* synthesized result is returned, what is raised and what is returned.
\* outcome is what subprocess.run meets when it is reached.
AppExecuteCommand(argv, shell, config, check, outcome) ==
    IF AppDryRun(config) /\ IsActionCommand(argv, shell)
    THEN [executed |-> FALSE, raised |-> "none",
          result |-> "CompletedProcess", returncode |-> 0]
    ELSE CASE outcome = "exit0" ->
                  [executed |-> TRUE, raised |-> "none",
                   result |-> "CompletedProcess", returncode |-> 0]
           [] outcome = "exitNonZero" ->
                  IF check
                  THEN [executed |-> TRUE, raised |-> "CalledProcessError",
                        result |-> "none", returncode |-> 1]
                  ELSE [executed |-> TRUE, raised |-> "none",
                        result |-> "CompletedProcess", returncode |-> 1]
           [] outcome = "timeout" ->
                  IF check
                  THEN [executed |-> TRUE, raised |-> "TimeoutExpired",
                        result |-> "none", returncode |-> -1]
                  ELSE [executed |-> TRUE, raised |-> "none",
                        result |-> "TimeoutExpired", returncode |-> -1]
           [] OTHER ->   \* the executable is not found
                  IF check
                  THEN [executed |-> TRUE, raised |-> "FileNotFoundError",
                        result |-> "none", returncode |-> 127]
                  ELSE [executed |-> TRUE, raised |-> "none",
                        result |-> "CompletedProcess", returncode |-> 127]

Outcomes == {"exit0", "exitNonZero", "timeout", "notFound"}

\* the commands the callers of this repository issue, and a few more
CmdArgvs ==
    { <<"zfs", "list", "tank">>, <<"zfs", "get", "guid">>, <<"zfs", "version">>,
      <<"zfs", "snapshot", "tank@s">>, <<"zfs", "destroy", "tank@s">>,
      <<"zfs", "send", "tank@s">>, <<"zfs", "receive", "bak">>,
      <<"zfs", "rename", "tank@s", "tank@t">>, <<"zfs", "mount">>, <<"zfs">>,
      <<"/sbin/zfs", "destroy", "tank@s">>,
      <<"libs/sanoid/sanoid", "--take-snapshots">>,
      <<"libs/sanoid/sanoid", "--prune-snapshots", "--readonly">>,
      <<"libs/sanoid/sanoid", "--configdir">>,
      <<"libs/sanoid/syncoid", "tank", "bak">>,
      <<"libs/sanoid/syncoid", "-n", "tank", "bak">>,
      <<"exit", "0">> }

Hosts == {"local", "hostA"}

NoCall ==
    [argv |-> <<>>, shell |-> FALSE, host |-> "local", check |-> FALSE,
     outcome |-> "exit0",
     ret |-> [executed |-> FALSE, raised |-> "none", result |-> "none",
              returncode |-> 0]]

CmdIdle ==
    /\ c_config = [DRY_RUN |-> FALSE, dry_run |-> "absent"]
    /\ c_calls = 0
    /\ c_last = NoCall

CmdInit ==
    /\ c_config \in [DRY_RUN : BOOLEAN, dry_run : {"absent", "true", "false"}]
    /\ c_calls = 0
    /\ c_last = NoCall

\* one call of execute_command
ExecuteCommand ==
    /\ c_calls < MaxCalls
    /\ \E argv \in CmdArgvs, shell \in BOOLEAN, host \in Hosts,
          check \in BOOLEAN, outcome \in Outcomes :
          c_last' = [argv |-> argv, shell |-> shell, host |-> host,
                     check |-> check, outcome |-> outcome,
                     ret |-> AppExecuteCommand(argv, shell, c_config, check, outcome)]
    /\ c_calls' = c_calls + 1
    /\ UNCHANGED <<c_config, planVars, jobVars, pipeVars, readerVars, sizeVars, tuiVars, mainVars, screenVars, listVars>>

-----------------------------------------------------------------------------
(* ---------------- zfs_sync_lib/zfs.py : snapshot inspector ---------------- *)

\* Snapshot names are strings; a string is a sequence of character codes and
\* Python compares strings lexicographically by code.
Min(a, b) == IF a < b THEN a ELSE b

LexLess(a, b) ==
    \E i \in 1..(Min(Len(a), Len(b)) + 1) :
        /\ \A j \in 1..(i - 1) : a[j] = b[j]
        /\ \/ i > Len(a) /\ i <= Len(b)
           \/ i <= Len(a) /\ i <= Len(b) /\ a[i] < b[i]

\* A dict is a sequence of [name, guid] entries with distinct names, in
\* insertion order (the order Python iterates it in).
DictHas(d, n) == \E i \in DOMAIN d : d[i].name = n

DictGet(d, n) == d[CHOOSE i \in DOMAIN d : d[i].name = n].guid

DictKeys(d) == { d[i].name : i \in DOMAIN d }

\* snapshots[snap_name] = guid
DictSet(d, n, g) ==
    IF DictHas(d, n)
    THEN [i \in DOMAIN d |-> IF d[i].name = n THEN [name |-> n, guid |-> g] ELSE d[i]]
    ELSE Append(d, [name |-> n, guid |-> g])

\* list.sort(reverse=True): insertion of x into a descending list
InsertDesc(x, sorted) ==
    LET smaller == { i \in DOMAIN sorted : LexLess(sorted[i], x) }
        pos == IF smaller = {} THEN Len(sorted) + 1
               ELSE CHOOSE i \in smaller : \A j \in smaller : i <= j
    IN SubSeq(sorted, 1, pos - 1) \o <<x>> \o SubSeq(sorted, pos, Len(sorted))

\* mutant of SortDesc: the list is left in insertion order
SortDescNoSort(seq) == seq

RECURSIVE SortDesc(_)
SortDesc(seq) ==
    IF seq = <<>> THEN <<>>
    ELSE InsertDesc(seq[Len(seq)], SortDesc(SubSeq(seq, 1, Len(seq) - 1)))

\* mutant of CommonLoop: names are matched, guids are not compared
RECURSIVE CommonLoopNameOnly(_, _)
CommonLoopNameOnly(src_snaps, dst_snaps) ==
    IF src_snaps = <<>> THEN <<>>
    ELSE LET e == Head(src_snaps)
             rest == CommonLoopNameOnly(Tail(src_snaps), dst_snaps)
         IN IF DictHas(dst_snaps, e.name) THEN <<e.name>> \o rest ELSE rest

\* the loop of find_verified_common_snapshots over src_snaps.items()
RECURSIVE CommonLoop(_, _)
CommonLoop(src_snaps, dst_snaps) ==
    IF src_snaps = <<>> THEN <<>>
    ELSE LET e == Head(src_snaps)
             rest == CommonLoop(Tail(src_snaps), dst_snaps)
         IN IF DictHas(dst_snaps, e.name) /\ DictGet(dst_snaps, e.name) = e.guid
            THEN <<e.name>> \o rest
            ELSE rest

\* find_verified_common_snapshots, from the two dicts get_snapshots_with_guids
\* returned
find_verified_common_snapshots(src_snaps, dst_snaps) ==
    SortDesc(CommonLoop(src_snaps, dst_snaps))

(* ---------------- zfs_sync.py : planning step of run_job ---------------- *)

\* a planner that takes the last element of the list as the base
PlanTransferLast(dest_exists, common_snapshots) ==
    IF ~dest_exists \/ common_snapshots = <<>>
    THEN [mode |-> "Full", base |-> <<>>]
    ELSE [mode |-> "Incremental", base |-> common_snapshots[Len(common_snapshots)]]

\* "Determine transfer type": needs_initial_transfer and sync_snapshot_src
PlanTransfer(dest_exists, common_snapshots) ==
    IF ~dest_exists
    THEN [mode |-> "Full", base |-> <<>>]
    ELSE IF common_snapshots = <<>>
         THEN [mode |-> "Full", base |-> <<>>]
         ELSE [mode |-> "Incremental", base |-> common_snapshots[1]]

(* ---------------- SpecPlan ---------------- *)

\* snapshot names of the planner's inputs: one is a proper prefix of another
PlanNames == { <<1>>, <<1, 2>>, <<2>>, <<2, 1>> }

\* guids are only compared for equality: two values give every case
Guids == {1, 2}

\* all dicts of at most MaxSnaps entries, in every insertion order
Dicts ==
    UNION { { d \in [1..n -> [name : PlanNames, guid : Guids]] :
                \A i, j \in 1..n : i # j => d[i].name # d[j].name } :
            n \in 0..MaxSnaps }

\* the same dicts in one insertion order each (ascending by name)
OrderedDicts ==
    { d \in Dicts : \A i, j \in DOMAIN d : i < j => LexLess(d[i].name, d[j].name) }

Perms(n) == { f \in [1..n -> 1..n] : \A i, j \in 1..n : i # j => f[i] # f[j] }

\* the reorderings of a dict: equal as Python dicts
Reorderings(d) == { [i \in DOMAIN d |-> d[f[i]]] : f \in Perms(Len(d)) }

PlanIdle ==
    /\ p_src = <<>>
    /\ p_dst = <<>>
    /\ p_dest_exists = FALSE
    /\ p_common = NoList
    /\ p_plan1 = NoPlan
    /\ p_plan2 = NoPlan

PlanInit ==
    /\ p_src \in Dicts
    /\ p_dst \in OrderedDicts
    /\ p_dest_exists \in BOOLEAN
    /\ p_common = NoList
    /\ p_plan1 = NoPlan
    /\ p_plan2 = NoPlan

\* run_job, destination present: the call of find_verified_common_snapshots
FindCommon ==
    /\ p_dest_exists
    /\ ~p_common.done
    /\ p_common' = [done |-> TRUE,
                    list |-> find_verified_common_snapshots(p_src, p_dst)]
    /\ UNCHANGED <<p_src, p_dst, p_dest_exists, p_plan1, p_plan2, cmdVars, jobVars, pipeVars, readerVars, sizeVars, tuiVars, mainVars, screenVars, listVars>>

\* run_job: the transfer type is determined
PlanFirst ==
    /\ p_dest_exists => p_common.done
    /\ p_plan1 = NoPlan
    /\ p_plan1' = PlanTransfer(p_dest_exists, p_common.list)
    /\ UNCHANGED <<p_src, p_dst, p_dest_exists, p_common, p_plan2, cmdVars, jobVars, pipeVars, readerVars, sizeVars, tuiVars, mainVars, screenVars, listVars>>

\* the planning step of another run, given the same answer of has_dataset and
\* equal dicts; the source entries may have been listed in another order (the
\* destination dict is only looked up by key)
PlanAgain ==
    /\ p_plan1 # NoPlan
    /\ p_plan2 = NoPlan
    /\ \E s \in Reorderings(p_src) :
          p_plan2' = PlanTransfer(p_dest_exists,
                                  IF p_dest_exists
                                  THEN find_verified_common_snapshots(s, p_dst)
                                  ELSE <<>>)
    /\ UNCHANGED <<p_src, p_dst, p_dest_exists, p_common, p_plan1, cmdVars, jobVars, pipeVars, readerVars, sizeVars, tuiVars, mainVars, screenVars, listVars>>

-----------------------------------------------------------------------------
(* ---------------- zfs_sync_lib/utils.py : execute_command ---------------- *)

\* dry_run = config.get('DRY_RUN', False): the job-level entry is not read
LibDryRun(dry) == dry.DRY_RUN

\* a command handed to execute_command starts a process unless dry_run
LibExecutes(dry) == ~LibDryRun(dry)

\* execute_transfer_pipeline: dry_run = config.get('dry_run', config.get('DRY_RUN', False))
PipelineDryRun(dry) ==
    IF dry.dry_run # "absent" THEN dry.dry_run = "true" ELSE dry.DRY_RUN

(* ---------------- snapshot names ---------------- *)

\* first character of the snapshot prefix ('backup')
PrefixCh == 98

\* first character of the 'sync' suffix of the sync snapshot
SyncCh == 115

\* first character of the pattern '_zfs_sync_incomplete_'
IncCh == 95

\* the character '0': timestamps are digit strings of one width
DigitBase == 48

\* f"{snapshot_prefix}-{timestamp}"
TimeName(t) == <<PrefixCh, DigitBase + t>>

\* f"{snapshot_prefix}-sync"
SyncName == <<PrefixCh, SyncCh>>

IncompleteName == <<IncCh, DigitBase>>

\* snap_full_name.startswith(full_prefix) and len(snap_full_name) > len(full_prefix)
HasPrefix(name) == Len(name) > 1 /\ name[1] = PrefixCh

\* snap_name_part.startswith(pattern)
IsIncomplete(name) == Len(name) >= 1 /\ name[1] = IncCh

(* ---------------- the pools, as the zfs commands change them ---------------- *)

NoToken == [set |-> FALSE, name |-> <<>>, guid |-> 0]

NoDataset == [exists |-> FALSE, snaps |-> <<>>, token |-> NoToken]

HasSnap(ds, n) == ds.exists /\ DictHas(ds.snaps, n)

\* the snapshots whose name is in names, in creation order
RECURSIVE SelectSnaps(_, _)
SelectSnaps(snaps, names) ==
    IF snaps = <<>> THEN <<>>
    ELSE IF Head(snaps).name \in names
         THEN <<Head(snaps)>> \o SelectSnaps(Tail(snaps), names)
         ELSE SelectSnaps(Tail(snaps), names)

\* zfs snapshot
ZfsSnapshot(ds, n, g) == [ds EXCEPT !.snaps = Append(@, [name |-> n, guid |-> g])]

\* zfs destroy of one snapshot
ZfsDestroy(ds, n) ==
    [ds EXCEPT !.snaps = SelectSnaps(@, DictKeys(@) \ {n})]

\* zfs rename of a snapshot: its guid and its creation time stay
ZfsRename(ds, from, to) ==
    [ds EXCEPT !.snaps = [i \in DOMAIN @ |->
                             IF @[i].name = from
                             THEN [name |-> to, guid |-> @[i].guid]
                             ELSE @[i]]]

\* index of a snapshot in creation order (0: none)
SnapIndex(snaps, n) ==
    IF DictHas(snaps, n) THEN CHOOSE i \in DOMAIN snaps : snaps[i].name = n ELSE 0

LastSnap(snaps) == snaps[Len(snaps)]

\* zfs list -t snapshot -o name,guid: the dict get_snapshots_with_guids builds
\* from the listing; a failed or dry-run listing gives the empty dict
get_snapshots_with_guids(ds, ok) == IF ok /\ ds.exists THEN ds.snaps ELSE <<>>

(* ---------------- zfs_sync_lib/transfer.py : the stage list ---------------- *)

Stage(via, argv) == [via |-> via, argv |-> argv]

\* send_cmd_list of perform_full_transfer
FullSendCmd(recursive, using_resume_token) ==
    <<"zfs", "send", "-p">>
    \o (IF using_resume_token THEN <<>>
        ELSE (IF recursive THEN <<"-R">> ELSE <<>>) \o <<"-v">>)
    \o (IF using_resume_token THEN <<"-t", "TOKEN">> ELSE <<"SRC@NEW">>)

\* send_cmd_base_list of perform_incremental_transfer
IncrSendCmd(recursive) ==
    <<"zfs", "send", "-p">>
    \o (IF recursive THEN <<"-R">> ELSE <<>>)
    \o <<"-i", "SRC@BASE", "SRC@NEW">>

FullRecvCmd == <<"zfs", "receive", "-s", "-u", "-v", "DST">>

IncrRecvCmd == <<"zfs", "receive", "-u", "-v", "DST">>

\* get_compression_commands: pigz is the tool found
CompressCmd(cfg) == IF cfg.use_compression THEN <<"pigz">> ELSE <<>>

DecompressCmd(cfg) == IF cfg.use_compression THEN <<"pigz", "-d">> ELSE <<>>

\* "Construct Pipeline Stages" of both transfer functions; <<>> when both
\* hosts are remote (the function returns False)
BuildStages(cfg, send_cmd, recv_cmd) ==
    LET compress == CompressCmd(cfg)
        decompress == DecompressCmd(cfg)
        first == <<Stage("local", send_cmd)>>
                 \o (IF compress # <<>> THEN <<Stage("local", compress)>> ELSE <<>>)
    IN CASE cfg.source_host = "local" /\ cfg.dest_host = "local" ->
                first
                \o (IF decompress # <<>> THEN <<Stage("local", decompress)>> ELSE <<>>)
                \o <<Stage("local", recv_cmd)>>
         [] cfg.source_host = "local" ->
                first
                \o <<Stage("ssh-dest",
                           (IF decompress # <<>> THEN decompress \o <<"|">> ELSE <<>>)
                           \o recv_cmd)>>
         [] cfg.dest_host = "local" ->
                \* pipeline_stages.pop() takes the last stage off the list
                <<Stage("ssh-source",
                        send_cmd \o (IF compress # <<>> THEN <<"|">> \o compress ELSE <<>>))>>
                \o SubSeq(first, 1, Len(first) - 1)
                \o (IF decompress # <<>> THEN <<Stage("local", decompress)>> ELSE <<>>)
                \o <<Stage("local", recv_cmd)>>
         [] OTHER -> <<>>

NoPipeline == [built |-> FALSE, mode |-> "none", base |-> <<>>, resume |-> FALSE,
               stages |-> <<>>]

(* ---------------- SpecJob: state ---------------- *)

JobConfigs ==
    [source_host : {"local", "hostA"}, dest_host : {"local", "hostB"},
     recursive : BOOLEAN, use_compression : BOOLEAN, resume_support : BOOLEAN,
     max_snapshots : 0..MaxKeep, dry_run : {"absent", "true", "false"}]

\* a snapshot of an earlier run, older than every run of the behaviour
OldSnap(g) == [name |-> TimeName(0), guid |-> g]

\* a later snapshot that another tool made, its name without the prefix
OtherName == <<SyncCh, DigitBase>>

OtherSnap(g) == [name |-> OtherName, guid |-> g]

\* the sync snapshot an earlier incremental run left
SyncSnap(g) == [name |-> SyncName, guid |-> g]

EmptyDataset == [exists |-> TRUE, snaps |-> <<>>, token |-> NoToken]

\* the pools a behaviour starts from: no source; a first replication, of a
\* source without or with an older snapshot; an earlier replication, with
\* the guids equal or not; a destination without snapshots; a destination
\* with the leftover of an interrupted run; an earlier replication followed
\* by an interrupted resumable receive (zfs receive -s, as syncoid runs it)
\* of a later snapshot, which left a receive_resume_token; the pools an
\* incremental run leaves, its snapshot renamed to the sync snapshot on
\* both sides
PoolInits ==
    { [src |-> NoDataset, dst |-> NoDataset],
      [src |-> EmptyDataset, dst |-> NoDataset],
      [src |-> [EmptyDataset EXCEPT !.snaps = <<OldSnap(1)>>], dst |-> NoDataset],
      [src |-> [EmptyDataset EXCEPT !.snaps = <<OldSnap(1)>>],
       dst |-> [EmptyDataset EXCEPT !.snaps = <<OldSnap(1)>>]],
      [src |-> [EmptyDataset EXCEPT !.snaps = <<OldSnap(1)>>],
       dst |-> [EmptyDataset EXCEPT !.snaps = <<OldSnap(2)>>]],
      [src |-> EmptyDataset, dst |-> EmptyDataset],
      [src |-> [EmptyDataset EXCEPT !.snaps = <<OldSnap(1)>>],
       dst |-> [EmptyDataset EXCEPT !.snaps = <<[name |-> IncompleteName, guid |-> 2]>>]],
      [src |-> [EmptyDataset EXCEPT !.snaps = <<OldSnap(1), OtherSnap(2)>>],
       dst |-> [EmptyDataset EXCEPT !.snaps = <<OldSnap(1)>>,
                                    !.token = [set |-> TRUE, name |-> OtherName,
                                               guid |-> 2]]],
      [src |-> [EmptyDataset EXCEPT !.snaps = <<OldSnap(1), SyncSnap(2)>>],
       dst |-> [EmptyDataset EXCEPT !.snaps = <<OldSnap(1), SyncSnap(2)>>]] }

NoDry == [DRY_RUN |-> FALSE, dry_run |-> "absent"]

NoFirst == [set |-> FALSE, real |-> FALSE, dest_existed |-> FALSE, mode |-> "NotRun",
            result |-> "none"]

NoDryRec == [set |-> FALSE, start |-> [src |-> NoDataset, dst |-> NoDataset],
             pipeline |-> NoPipeline]

JobLocalsReset ==
    /\ j_dest_exists' = FALSE
    /\ j_common' = <<>>
    /\ j_plan' = NoPlan
    /\ j_new' = <<>>
    /\ j_pipeline' = NoPipeline
    /\ j_success' = FALSE
    /\ j_spawned' = {}

JobIdle ==
    /\ j_cfg = [source_host |-> "local", dest_host |-> "local", recursive |-> FALSE,
                use_compression |-> FALSE, resume_support |-> FALSE,
                max_snapshots |-> 0, dry_run |-> "absent"]
    /\ j_src = NoDataset
    /\ j_dst = NoDataset
    /\ j_next_guid = 3
    /\ j_clock = 1
    /\ j_runs = MaxRuns
    /\ j_faults = 0
    /\ j_pc = "idle"
    /\ j_dry = NoDry
    /\ j_start = [src |-> NoDataset, dst |-> NoDataset]
    /\ j_dest_exists = FALSE
    /\ j_common = <<>>
    /\ j_plan = NoPlan
    /\ j_new = <<>>
    /\ j_pipeline = NoPipeline
    /\ j_success = FALSE
    /\ j_spawned = {}
    /\ j_result = "none"
    /\ j_reason = "none"
    /\ j_first = NoFirst
    /\ j_dryrec = NoDryRec

JobInit ==
    /\ j_cfg \in JobConfigs
    /\ \E pools \in PoolInits : j_src = pools.src /\ j_dst = pools.dst
    /\ j_next_guid = 3
    /\ j_clock = 1
    /\ j_runs = 0
    /\ j_faults = 0
    /\ j_pc = "idle"
    /\ j_dry = NoDry
    /\ j_start = [src |-> NoDataset, dst |-> NoDataset]
    /\ j_dest_exists = FALSE
    /\ j_common = <<>>
    /\ j_plan = NoPlan
    /\ j_new = <<>>
    /\ j_pipeline = NoPipeline
    /\ j_success = FALSE
    /\ j_spawned = {}
    /\ j_result = "none"
    /\ j_reason = "none"
    /\ j_first = NoFirst
    /\ j_dryrec = NoDryRec

\* a command may fail for an outside reason while the budget lasts
MayFail == j_faults < MaxFaults

Fault(f) == IF f THEN j_faults + 1 ELSE j_faults

\* run_job returns (or the process exits)
EndRun(result, reason, spawned, pipeline, success) ==
    /\ j_pc' = "idle"
    /\ j_result' = result
    /\ j_reason' = reason
    /\ j_spawned' = spawned
    /\ j_pipeline' = pipeline
    /\ j_success' = success
    /\ j_first' = IF j_first.set THEN j_first
                  ELSE [set |-> TRUE, real |-> ~LibDryRun(j_dry) /\ ~PipelineDryRun(j_dry),
                        dest_existed |-> j_start.dst.exists,
                        mode |-> j_plan.mode, result |-> result]
    /\ j_dryrec' = IF PipelineDryRun(j_dry) /\ pipeline.built
                   THEN [set |-> TRUE, start |-> j_start, pipeline |-> pipeline]
                   ELSE j_dryrec

(* ---------------- SpecJob: the steps of run_job ---------------- *)

\* main() sets config['DRY_RUN'] from the command line and hands one job to
\* run_job; run_config = {**config, **job_config}
StartRun ==
    /\ j_pc = "idle"
    /\ j_runs < MaxRuns
    /\ j_runs' = j_runs + 1
    /\ \E flag \in BOOLEAN : j_dry' = [DRY_RUN |-> flag, dry_run |-> j_cfg.dry_run]
    \* the clock counts only through the name it gives the new snapshot: a
    \* run may fall in the second of a snapshot that exists, or in a later one
    /\ \E tick \in (IF HasSnap(j_src, TimeName(j_clock)) \/ HasSnap(j_dst, TimeName(j_clock))
                     THEN {0, 1} ELSE {0}) : j_clock' = j_clock + tick
    /\ j_start' = [src |-> j_src, dst |-> j_dst]
    /\ JobLocalsReset
    /\ j_result' = "running"
    /\ j_reason' = "none"
    /\ j_pc' = "verify"
    /\ UNCHANGED <<j_cfg, j_src, j_dst, j_next_guid, j_faults, j_first, j_dryrec, cmdVars, planVars, pipeVars, readerVars, sizeVars, tuiVars, mainVars, screenVars, listVars>>

\* verify_ssh(source_host), verify_ssh(dest_host): a failed probe ends the process
Verify ==
    /\ j_pc = "verify"
    /\ LET remote == {j_cfg.source_host, j_cfg.dest_host} \ {"local"}
           probes == IF remote # {} /\ LibExecutes(j_dry) THEN {"ssh-probe"} ELSE {}
       IN \/ /\ j_pc' = "datasets"
             /\ j_spawned' = j_spawned \cup probes
             /\ UNCHANGED <<j_src, j_dst, j_faults, j_result, j_reason, j_first, j_dryrec, j_pipeline, j_success>>
          \/ /\ probes # {}
             /\ MayFail
             /\ j_faults' = j_faults + 1
             /\ UNCHANGED <<j_src, j_dst>>
             /\ EndRun("exited", "ssh", j_spawned \cup probes, j_pipeline, j_success)
    /\ UNCHANGED <<j_cfg, j_next_guid, j_clock, j_runs, j_dry, j_start, j_dest_exists,
                   j_common, j_plan, j_new, cmdVars, planVars, pipeVars, readerVars, sizeVars, tuiVars, mainVars, screenVars, listVars>>

\* has_dataset: True when execute_command(['zfs', 'list', dataset], check=True)
\* returns, False when it raises (non-zero exit, timeout, tool missing); under
\* DRY_RUN execute_command returns a stub result with returncode 0 and runs
\* nothing
has_dataset(ds, dry, failed) ==
    IF LibExecutes(dry) THEN ds.exists /\ ~failed ELSE TRUE

\* has_dataset(dest), has_dataset(source), cleanup_incomplete_snapshots(dest)
CheckDatasets ==
    /\ j_pc = "datasets"
    /\ \E f \in {"none"} \cup (IF MayFail /\ LibExecutes(j_dry)
                               THEN {"dest", "src", "list", "destroy"} ELSE {}) :
        LET ex == LibExecutes(j_dry)
            dest_exists == has_dataset(j_dst, j_dry, f = "dest")
            src_exists == has_dataset(j_src, j_dry, f = "src")
            listed == get_snapshots_with_guids(j_dst, ex /\ f # "list")
            incomplete == {n \in DictKeys(listed) : IsIncomplete(n)}
            cleaning == src_exists /\ dest_exists
            destroyed == IF cleaning /\ f # "destroy" THEN incomplete ELSE {}
            sp == j_spawned \cup (IF ex THEN {"list"} ELSE {})
                            \cup (IF cleaning /\ incomplete # {} THEN {"destroy"} ELSE {})
        IN /\ f = "dest" => j_dst.exists
           /\ f = "src" => j_src.exists
           /\ f = "list" => cleaning /\ j_dst.snaps # <<>>
           /\ f = "destroy" => cleaning /\ incomplete # {}
           /\ j_faults' = Fault(f # "none")
           /\ j_dest_exists' = dest_exists
           /\ j_dst' = [j_dst EXCEPT !.snaps = SelectSnaps(@, DictKeys(@) \ destroyed)]
           /\ j_src' = j_src
           /\ IF src_exists
              THEN /\ j_pc' = "plan"
                   /\ j_spawned' = sp
                   /\ UNCHANGED <<j_result, j_reason, j_first, j_dryrec, j_pipeline, j_success>>
              ELSE EndRun("false", "no-source", sp, j_pipeline, j_success)
    /\ UNCHANGED <<j_cfg, j_next_guid, j_clock, j_runs, j_dry, j_start, j_common,
                   j_plan, j_new, cmdVars, planVars, pipeVars, readerVars, sizeVars, tuiVars, mainVars, screenVars, listVars>>

\* "Find Common Snapshots & Verify GUIDs": the step cannot fail; a listing
\* that fails gives the empty dict, the NameError of the probe is caught
Plan ==
    /\ j_pc = "plan"
    /\ \E f \in {"none"} \cup (IF MayFail /\ LibExecutes(j_dry) /\ j_dest_exists
                               THEN {"src-list", "dst-list"} ELSE {}) :
        LET ex == LibExecutes(j_dry)
            src_snaps == get_snapshots_with_guids(j_src, ex /\ f # "src-list")
            dst_snaps == get_snapshots_with_guids(j_dst, ex /\ f # "dst-list")
            common == IF j_dest_exists
                      THEN find_verified_common_snapshots(src_snaps, dst_snaps)
                      ELSE <<>>
        IN /\ f = "src-list" => j_src.snaps # <<>>
           /\ f = "dst-list" => j_dst.snaps # <<>>
           /\ j_faults' = Fault(f # "none")
           /\ j_common' = common
           /\ j_plan' = PlanTransfer(j_dest_exists, common)
           /\ j_spawned' = j_spawned \cup (IF ex /\ j_dest_exists THEN {"list"} ELSE {})
    /\ j_pc' = "snapshot"
    /\ UNCHANGED <<j_cfg, j_src, j_dst, j_next_guid, j_clock, j_runs, j_dry, j_start,
                   j_dest_exists, j_new, j_pipeline, j_success, j_result, j_reason,
                   j_first, j_dryrec, cmdVars, planVars, pipeVars, readerVars, sizeVars, tuiVars, mainVars, screenVars, listVars>>

\* new_snapshot_name and create_snapshot(source)
CreateSnapshot ==
    /\ j_pc = "snapshot"
    /\ \E f \in {"none"} \cup (IF MayFail /\ LibExecutes(j_dry) THEN {"snapshot"} ELSE {}) :
        LET ex == LibExecutes(j_dry)
            new == TimeName(j_clock)
            \* get_snapshot: the stub result of a dry run has return code 0
            found == IF ex THEN HasSnap(j_src, new) ELSE TRUE
            created == ~found /\ f = "none" /\ j_src.exists
            sp == j_spawned \cup (IF ex THEN {"list"} ELSE {})
                            \cup (IF ~found THEN {"snapshot"} ELSE {})
        IN /\ f = "snapshot" => ~found
           /\ j_faults' = Fault(f # "none")
           /\ j_new' = new
           /\ j_src' = IF created THEN ZfsSnapshot(j_src, new, j_next_guid) ELSE j_src
           /\ j_next_guid' = IF created THEN j_next_guid + 1 ELSE j_next_guid
           /\ j_dst' = j_dst
           /\ IF found \/ created
              THEN /\ j_pc' = "transfer"
                   /\ j_spawned' = sp
                   /\ UNCHANGED <<j_result, j_reason, j_first, j_dryrec, j_pipeline, j_success>>
              ELSE EndRun("false", "snapshot", sp, j_pipeline, j_success)
    /\ UNCHANGED <<j_cfg, j_clock, j_runs, j_dry, j_start, j_dest_exists, j_common,
                   j_plan, cmdVars, planVars, pipeVars, readerVars, sizeVars, tuiVars, mainVars, screenVars, listVars>>

\* get_receive_resume_token(dst): the value of receive_resume_token, or none
\* when the query fails, is stubbed by a dry run, or prints '-'
get_receive_resume_token(ds, ok) ==
    IF ok /\ ds.exists /\ ds.token.set THEN ds.token ELSE NoToken

\* a pipeline moves one stream: exactly one stage sends
WellFormed(stages) ==
    Cardinality({i \in DOMAIN stages : Contains(stages[i].argv, "send")}) = 1

\* the snapshots a full stream of snapshot n carries
FullStream(ds, n, recursive) ==
    IF recursive THEN SubSeq(ds.snaps, 1, SnapIndex(ds.snaps, n))
    ELSE <<ds.snaps[SnapIndex(ds.snaps, n)]>>

\* zfs send | zfs receive: whether the receive completes, and the destination
\* it leaves.  A full stream needs a destination that does not exist, an
\* incremental stream needs its base to be the newest destination snapshot,
\* a resumed stream needs the snapshot the token names.
Receive(src, dst, full, token, new, base, recursive) ==
    CASE full /\ token.set ->
           LET have == {i \in DOMAIN src.snaps : src.snaps[i].guid = token.guid}
           IN IF src.exists /\ have # {}
              THEN [ok |-> TRUE,
                    dst |-> [dst EXCEPT !.snaps = Append(@, src.snaps[CHOOSE i \in have : TRUE]),
                                        !.token = NoToken]]
              ELSE [ok |-> FALSE, dst |-> dst]
      [] full /\ ~token.set ->
           IF HasSnap(src, new) /\ ~dst.exists
           THEN [ok |-> TRUE,
                 dst |-> [exists |-> TRUE, snaps |-> FullStream(src, new, recursive),
                          token |-> NoToken]]
           ELSE [ok |-> FALSE, dst |-> dst]
      [] OTHER ->
           IF /\ HasSnap(src, new) /\ HasSnap(src, base)
              /\ SnapIndex(src.snaps, base) < SnapIndex(src.snaps, new)
              /\ dst.exists /\ ~dst.token.set /\ dst.snaps # <<>>
              /\ LastSnap(dst.snaps) = [name |-> base, guid |-> DictGet(src.snaps, base)]
           THEN [ok |-> TRUE,
                 dst |-> [dst EXCEPT !.snaps =
                             Append(@, src.snaps[SnapIndex(src.snaps, new)])]]
           ELSE [ok |-> FALSE, dst |-> dst]

\* an interrupted zfs receive -s of a new dataset leaves a resume token
Interrupted(src, new) ==
    [exists |-> TRUE, snaps |-> <<>>,
     token |-> [set |-> TRUE, name |-> new, guid |-> DictGet(src.snaps, new)]]

\* a run_job that destroys the source snapshot of the run after a failed
\* transfer (the cleanup the source has commented out)
AfterFailedTransferDestroy(src, new) == ZfsDestroy(src, new)

\* run_job, "if not transfer_success": the error is logged and False is
\* returned; the source is left as it is
AfterFailedTransfer(src, new) == src

\* perform_full_transfer / perform_incremental_transfer
Transfer ==
    /\ j_pc = "transfer"
    /\ \E f \in {"none"} \cup (IF MayFail THEN {"pipe", "pipe-partial"} ELSE {}) :
        LET ex == LibExecutes(j_dry)
            full == j_plan.mode = "Full"
            asks == full /\ j_cfg.resume_support
            token == IF asks THEN get_receive_resume_token(j_dst, ex) ELSE NoToken
            send_cmd == IF full THEN FullSendCmd(j_cfg.recursive, token.set)
                        ELSE IncrSendCmd(j_cfg.recursive)
            stages == BuildStages(j_cfg, send_cmd, IF full THEN FullRecvCmd ELSE IncrRecvCmd)
            pipeline == [built |-> stages # <<>>, mode |-> j_plan.mode,
                         base |-> j_plan.base, resume |-> token.set, stages |-> stages]
            started == stages # <<>> /\ ~PipelineDryRun(j_dry)
            rcv == IF WellFormed(stages)
                   THEN Receive(j_src, j_dst, full, token, j_new, j_plan.base, j_cfg.recursive)
                   ELSE [ok |-> FALSE, dst |-> j_dst]
            ok == IF started THEN rcv.ok /\ f = "none" ELSE stages # <<>>
            sp == j_spawned \cup (IF ex THEN {"estimate"} ELSE {})
                            \cup (IF asks /\ ex THEN {"token-query"} ELSE {})
                            \cup (IF j_cfg.use_compression THEN {"compress-probe"} ELSE {})
                            \cup (IF started THEN {"stage"} ELSE {})
        IN /\ f # "none" => started /\ rcv.ok
           /\ f = "pipe-partial" => full /\ ~token.set
           /\ j_faults' = Fault(f # "none")
           /\ j_src' = IF ok THEN j_src ELSE AfterFailedTransfer(j_src, j_new)
           /\ j_dst' = IF ~started \/ f = "pipe" THEN j_dst
                       ELSE IF f = "pipe-partial" THEN Interrupted(j_src, j_new)
                       ELSE rcv.dst
           /\ IF ok
              THEN /\ j_pc' = "sync"
                   /\ j_spawned' = sp
                   /\ j_pipeline' = pipeline
                   /\ j_success' = TRUE
                   /\ UNCHANGED <<j_result, j_reason, j_first, j_dryrec>>
              ELSE EndRun("false", IF stages = <<>> THEN "not-supported" ELSE "transfer",
                          sp, pipeline, FALSE)
    /\ UNCHANGED <<j_cfg, j_next_guid, j_clock, j_runs, j_dry, j_start, j_dest_exists,
                   j_common, j_plan, j_new, cmdVars, planVars, pipeVars, readerVars, sizeVars, tuiVars, mainVars, screenVars, listVars>>

\* one side of setup_sync_snapshot: remove the old sync snapshot, then create
\* a new one (create_new) or rename the current snapshot to it
SyncSide(ds, create_new, new, g, ex, fDestroy, fMake) ==
    LET had == IF ex THEN HasSnap(ds, SyncName) ELSE TRUE
        d1 == IF ex /\ had /\ ~fDestroy THEN ZfsDestroy(ds, SyncName) ELSE ds
        still == IF ex THEN HasSnap(d1, SyncName) ELSE TRUE
        issued == ex /\ (create_new => ~still)
        works == /\ issued /\ ~fMake /\ d1.exists
                 /\ ~create_new => HasSnap(d1, new) /\ ~HasSnap(d1, SyncName)
        d2 == IF ~works THEN d1
              ELSE IF create_new THEN ZfsSnapshot(d1, SyncName, g)
              ELSE ZfsRename(d1, new, SyncName)
    IN [ok |-> ~ex \/ works \/ (create_new /\ still),
        ds |-> d2,
        fresh |-> works /\ create_new,
        spawned |-> IF ~ex THEN {}
                    ELSE {"list"} \cup (IF had THEN {"destroy"} ELSE {})
                         \cup (IF issued THEN {IF create_new THEN "snapshot" ELSE "rename"}
                               ELSE {})]

\* setup_sync_snapshot: the destination side runs only if the source side
\* did not return False
SetupBoth(src, dst, create_new, new, g, ex, f) ==
    LET s == SyncSide(src, create_new, new, g, ex, f = "src-destroy", f = "src-make")
        g2 == IF s.fresh THEN g + 1 ELSE g
        d == IF s.ok
             THEN SyncSide(dst, create_new, new, g2, ex, f = "dst-destroy", f = "dst-make")
             ELSE [ok |-> FALSE, ds |-> dst, fresh |-> FALSE, spawned |-> {}]
    IN [src |-> s.ds, dst |-> d.ds, spawned |-> s.spawned \cup d.spawned,
        guid |-> IF d.fresh THEN g2 + 1 ELSE g2, ok |-> s.ok /\ d.ok]

\* run_job calls setup_sync_snapshot and does not read what it returns
SetupSync ==
    /\ j_pc = "sync"
    /\ \E f \in {"none"} \cup (IF MayFail /\ LibExecutes(j_dry)
                               THEN {"src-destroy", "src-make", "dst-destroy", "dst-make"}
                               ELSE {}) :
        LET ex == LibExecutes(j_dry)
            create_new == j_plan.mode = "Full"
            r == SetupBoth(j_src, j_dst, create_new, j_new, j_next_guid, ex, f)
            r0 == SetupBoth(j_src, j_dst, create_new, j_new, j_next_guid, ex, "none")
        IN /\ f # "none" => r # r0
           /\ j_faults' = Fault(f # "none")
           /\ j_src' = r.src
           /\ j_dst' = r.dst
           /\ j_next_guid' = r.guid
           /\ j_spawned' = j_spawned \cup r.spawned
    /\ j_pc' = "clean"
    /\ UNCHANGED <<j_cfg, j_clock, j_runs, j_dry, j_start, j_dest_exists, j_common,
                   j_plan, j_new, j_pipeline, j_success, j_result, j_reason,
                   j_first, j_dryrec, cmdVars, planVars, pipeVars, readerVars, sizeVars, tuiVars, mainVars, screenVars, listVars>>

\* the names with the prefix, in the order of the listing (-s creation)
RECURSIVE PrefixSnapshots(_)
PrefixSnapshots(snaps) ==
    IF snaps = <<>> THEN <<>>
    ELSE (IF HasPrefix(Head(snaps).name) THEN <<Head(snaps).name>> ELSE <<>>)
         \o PrefixSnapshots(Tail(snaps))

\* snapshots_to_remove = prefix_snapshots[keep:]
SnapshotsToRemove(prefix_snapshots, keep) ==
    IF Len(prefix_snapshots) <= keep THEN <<>>
    ELSE SubSeq(prefix_snapshots, keep + 1, Len(prefix_snapshots))

\* clean_old_snapshots on one dataset
clean_old_snapshots(ds, keep, ex, fList, fDestroy) ==
    LET listed == get_snapshots_with_guids(ds, ex /\ ~fList)
        to_remove == Range(SnapshotsToRemove(PrefixSnapshots(listed), keep))
    IN [ds |-> IF fDestroy THEN ds
               ELSE [ds EXCEPT !.snaps = SelectSnaps(@, DictKeys(@) \ to_remove)],
        spawned |-> (IF ex THEN {"list"} ELSE {})
                    \cup (IF to_remove # {} THEN {"destroy"} ELSE {})]

\* clean_old_snapshots(source), clean_old_snapshots(dest), return True
CleanOld ==
    /\ j_pc = "clean"
    /\ \E f \in {"none"} \cup (IF MayFail /\ LibExecutes(j_dry)
                               THEN {"src-list", "src-destroy", "dst-list", "dst-destroy"}
                               ELSE {}) :
        LET ex == LibExecutes(j_dry)
            keep == j_cfg.max_snapshots
            s == clean_old_snapshots(j_src, keep, ex, f = "src-list", f = "src-destroy")
            d == clean_old_snapshots(j_dst, keep, ex, f = "dst-list", f = "dst-destroy")
            s0 == clean_old_snapshots(j_src, keep, ex, FALSE, FALSE)
            d0 == clean_old_snapshots(j_dst, keep, ex, FALSE, FALSE)
        IN /\ f # "none" => <<s, d>> # <<s0, d0>>
           /\ j_faults' = Fault(f # "none")
           /\ j_src' = s.ds
           /\ j_dst' = d.ds
           /\ EndRun("true", IF f = "none" THEN "ok" ELSE "cleanup-failed",
                     j_spawned \cup s.spawned \cup d.spawned,
                     j_pipeline, j_success)
    /\ UNCHANGED <<j_cfg, j_next_guid, j_clock, j_runs, j_dry, j_start, j_dest_exists,
                   j_common, j_plan, j_new, cmdVars, planVars, pipeVars, readerVars, sizeVars, tuiVars, mainVars, screenVars, listVars>>

-----------------------------------------------------------------------------
(* ------------ zfs_sync_lib/transfer.py : execute_transfer_pipeline ------------ *)

\* a stage that was not started
NoProc == [state |-> "none", returncode |-> 0]

\* return code of a process ended by SIGTERM
SigTerm == 0 - 15

\* the handles of a stage that was not started
NoHandles == [stdout |-> "none", stderr |-> "none"]

PipeIdle ==
    /\ x_stages = 0
    /\ x_dry_run = FALSE
    /\ x_pc = "off"
    /\ x_i = 1
    /\ x_processes = <<>>
    /\ x_final_return_code = 0
    /\ x_success = FALSE
    /\ x_stderr_thread = "none"
    /\ x_handles = <<>>

PipeInit ==
    /\ x_stages \in 1..MaxStages
    /\ x_dry_run \in BOOLEAN
    /\ x_pc = "spawn"
    /\ x_i = 1
    /\ x_processes = [i \in 1..x_stages |-> NoProc]
    /\ x_final_return_code = 0
    /\ x_success = FALSE
    /\ x_stderr_thread = "none"
    /\ x_handles = [i \in 1..x_stages |-> NoHandles]

\* the next position of a loop over the stages
LoopNext(after) ==
    IF x_i < x_stages
    THEN x_i' = x_i + 1 /\ x_pc' = x_pc
    ELSE x_i' = 1 /\ x_pc' = after

\* if dry_run: log the stages, return True
DryRunReturn ==
    /\ x_pc = "spawn"
    /\ x_dry_run
    /\ x_success' = TRUE
    /\ x_pc' = "returned"
    /\ UNCHANGED <<x_handles, x_stages, x_dry_run, x_i, x_processes, x_final_return_code,
                   x_stderr_thread, cmdVars, planVars, jobVars, readerVars, sizeVars, tuiVars, mainVars, screenVars, listVars>>

\* subprocess.Popen(cmd_args, ...) of stage i with stdout=PIPE unless it is
\* the last and stderr=PIPE when it is the first; the first stage starts the
\* thread; last_stdout, the stdout handle of the stage before, is closed
Popen ==
    /\ x_pc = "spawn"
    /\ ~x_dry_run
    /\ x_processes' = [x_processes EXCEPT ![x_i] = [state |-> "running", returncode |-> 0]]
    /\ x_stderr_thread' = IF x_i = 1 THEN "alive" ELSE x_stderr_thread
    /\ x_handles' = [k \in 1..x_stages |->
                        IF k = x_i
                        THEN [stdout |-> IF x_i < x_stages THEN "open" ELSE "none",
                              stderr |-> IF x_i = 1 THEN "open" ELSE "none"]
                        ELSE IF k = x_i - 1 /\ x_handles[k].stdout = "open"
                        THEN [x_handles[k] EXCEPT !.stdout = "closed"]
                        ELSE x_handles[k]]
    /\ LoopNext("wait")
    /\ UNCHANGED <<x_stages, x_dry_run, x_final_return_code, x_success,
                   cmdVars, planVars, jobVars, readerVars, sizeVars, tuiVars, mainVars, screenVars, listVars>>

\* Popen raises (the executable is missing, fork fails): except, then finally
PopenRaises ==
    /\ x_pc = "spawn"
    /\ ~x_dry_run
    /\ x_success' = FALSE
    /\ x_pc' = "finally"
    /\ x_i' = 1
    /\ UNCHANGED <<x_handles, x_stages, x_dry_run, x_processes, x_final_return_code,
                   x_stderr_thread, cmdVars, planVars, jobVars, readerVars, sizeVars, tuiVars, mainVars, screenVars, listVars>>

\* a stage process ends by itself, with return code zero or not
StageExits ==
    /\ x_pc \in {"spawn", "wait", "join", "finally"}
    /\ \E i \in 1..x_stages, rc \in {0, 1} :
        /\ x_processes[i].state = "running"
        /\ x_processes' = [x_processes EXCEPT ![i] = [state |-> "exited", returncode |-> rc]]
    /\ UNCHANGED <<x_handles, x_stages, x_dry_run, x_pc, x_i, x_final_return_code, x_success,
                   x_stderr_thread, cmdVars, planVars, jobVars, readerVars, sizeVars, tuiVars, mainVars, screenVars, listVars>>

\* the reader thread ends
ThreadEnds ==
    /\ x_pc \in {"spawn", "wait", "join", "finally"}
    /\ x_stderr_thread = "alive"
    /\ x_stderr_thread' = "done"
    /\ UNCHANGED <<x_handles, x_stages, x_dry_run, x_pc, x_i, x_processes, x_final_return_code,
                   x_success, cmdVars, planVars, jobVars, readerVars, sizeVars, tuiVars, mainVars, screenVars, listVars>>

\* proc.wait() of the wait loop returns once the process has ended
Wait ==
    /\ x_pc = "wait"
    /\ x_processes[x_i].state = "exited"
    /\ x_processes' = [x_processes EXCEPT ![x_i].state = "reaped"]
    /\ x_final_return_code' = IF x_processes[x_i].returncode # 0
                              THEN x_processes[x_i].returncode
                              ELSE x_final_return_code
    /\ LoopNext("join")
    /\ UNCHANGED <<x_handles, x_stages, x_dry_run, x_success, x_stderr_thread,
                   cmdVars, planVars, jobVars, readerVars, sizeVars, tuiVars, mainVars, screenVars, listVars>>

\* a join without a timeout: it returns only once the thread has ended
JoinThreadUnbounded ==
    /\ x_pc = "join"
    /\ x_stderr_thread = "done"
    /\ x_success' = (x_final_return_code = 0)
    /\ x_handles' = [x_handles EXCEPT ![1].stderr = "closed"]
    /\ x_pc' = "finally"
    /\ x_i' = 1
    /\ UNCHANGED <<x_stages, x_dry_run, x_processes, x_final_return_code,
                   x_stderr_thread, cmdVars, planVars, jobVars, readerVars, sizeVars, tuiVars, mainVars, screenVars, listVars>>

\* close the pipe, stderr_thread.join(timeout=5), success = final_return_code == 0
JoinThread ==
    /\ x_pc = "join"
    /\ x_success' = (x_final_return_code = 0)
    /\ x_handles' = [x_handles EXCEPT ![1].stderr = "closed"]
    /\ x_pc' = "finally"
    /\ x_i' = 1
    /\ UNCHANGED <<x_stages, x_dry_run, x_processes, x_final_return_code,
                   x_stderr_thread, cmdVars, planVars, jobVars, readerVars, sizeVars, tuiVars, mainVars, screenVars, listVars>>

\* one round of the finally loop: poll(); a running process gets terminate()
\* and wait(timeout=2), and kill() without a wait when the two seconds pass
Finally ==
    /\ x_pc = "finally"
    /\ \E in_time \in BOOLEAN :
        x_processes' =
            [x_processes EXCEPT ![x_i] =
                CASE @.state = "running" /\ in_time ->
                         [state |-> "reaped", returncode |-> SigTerm]
                  [] @.state = "running" /\ ~in_time ->
                         [state |-> "killed", returncode |-> 0]
                  [] @.state = "exited" -> [@ EXCEPT !.state = "reaped"]
                  [] OTHER -> @]
    \* after the loop: the stderr pipe is closed if it is not yet
    /\ x_handles' = IF x_i = x_stages /\ x_handles[1].stderr = "open"
                    THEN [x_handles EXCEPT ![1].stderr = "closed"]
                    ELSE x_handles
    /\ LoopNext("returned")
    /\ UNCHANGED <<x_stages, x_dry_run, x_final_return_code, x_success,
                   x_stderr_thread, cmdVars, planVars, jobVars, readerVars, sizeVars, tuiVars, mainVars, screenVars, listVars>>

-----------------------------------------------------------------------------
(* ---------------- _process_zfs_stderr, both variants ---------------- *)

\* a line without a size token
NoMatch == 0 - 1

\* total_size is None
NoTotal == 0 - 1

\* if current_bytes >= total_bytes_reported
AdvancesOrEqual(current_bytes, total_bytes_reported) ==
    current_bytes >= total_bytes_reported

\* if current_bytes > total_bytes_reported
Advances(current_bytes, total_bytes_reported) ==
    current_bytes > total_bytes_reported

\* all sequences over S of length at most n
SeqsUpTo(S, n) == UNION {[1..k -> S] : k \in 0..n}

ReaderIdle ==
    /\ r_variant = "off"
    /\ r_stream = <<>>
    /\ r_total_size = NoTotal
    /\ r_pc = "off"
    /\ r_total_bytes_reported = 0
    /\ r_completed = 0
    /\ r_parsed = <<>>
    /\ r_updates = <<>>
    /\ r_final = <<>>
    /\ r_closed = FALSE

\* a reported value within a tenth of the largest total
NearValue == 10 * MaxValue

\* the sizes a line of the stream can carry
ReaderValues == 0..MaxValue \cup {NearValue}

\* the totals estimate_transfer_size can give
ReaderTotals == 1..MaxValue \cup {NearValue + 1}

ReaderInit ==
    /\ r_variant \in {"lib", "app"}
    /\ r_stream \in SeqsUpTo({NoMatch} \cup ReaderValues, MaxLines)
    /\ r_total_size \in {NoTotal} \cup ReaderTotals
    /\ r_pc = "loop"
    /\ r_total_bytes_reported = 0
    /\ r_completed = 0
    /\ r_parsed = <<>>
    /\ r_updates = <<>>
    /\ r_final = <<>>
    /\ r_closed = FALSE

\* readline() gives a line: a size token is parsed and compared with the
\* last reported value; the lib variant advances the display by the
\* difference, the app variant posts the value
ReadLine ==
    /\ r_pc = "loop"
    /\ ~r_closed
    /\ r_stream # <<>>
    /\ r_stream' = Tail(r_stream)
    /\ LET current_bytes == Head(r_stream)
           completed == IF r_variant = "lib"
                        THEN r_completed + (current_bytes - r_total_bytes_reported)
                        ELSE current_bytes
       IN IF current_bytes = NoMatch
          THEN UNCHANGED <<r_total_bytes_reported, r_completed, r_parsed, r_updates>>
          ELSE /\ r_parsed' = Append(r_parsed, current_bytes)
               /\ IF Advances(current_bytes, r_total_bytes_reported)
                  THEN /\ r_completed' = completed
                       /\ r_updates' = Append(r_updates, completed)
                       /\ r_total_bytes_reported' = current_bytes
                  ELSE UNCHANGED <<r_total_bytes_reported, r_completed, r_updates>>
    /\ UNCHANGED <<r_closed, r_variant, r_total_size, r_pc, r_final,
                   cmdVars, planVars, jobVars, pipeVars, sizeVars, tuiVars, mainVars, screenVars, listVars>>

\* readline() gives no line: the loop ends
ReadEOF ==
    /\ r_pc = "loop"
    /\ ~r_closed
    /\ r_stream = <<>>
    /\ r_pc' = "eof"
    /\ UNCHANGED <<r_closed, r_variant, r_stream, r_total_size, r_total_bytes_reported,
                   r_completed, r_parsed, r_updates, r_final,
                   cmdVars, planVars, jobVars, pipeVars, sizeVars, tuiVars, mainVars, screenVars, listVars>>

\* the executor, once the stage processes have exited (r_stream is what
\* the Send stage wrote and the thread has not read yet), closes the pipe
\* object: stderr_pipe_read_end.close() before the join in
\* execute_transfer_pipeline, communicate() in execute_syncoid_transfer
ExecutorCloses ==
    /\ r_pc \in {"loop", "eof", "done"}
    /\ ~r_closed
    /\ r_closed' = TRUE
    /\ UNCHANGED <<r_variant, r_stream, r_total_size, r_pc, r_total_bytes_reported,
                   r_completed, r_parsed, r_updates, r_final, cmdVars, planVars, jobVars, pipeVars, sizeVars, tuiVars, mainVars, screenVars, listVars>>

\* the loop finds the pipe object closed: readline() raises ValueError (I/O
\* operation on closed file), which nothing catches (the app variant
\* catches OSError only), and the thread ends; or the poll had timed out
\* and stderr_pipe.closed ends the loop
ReadClosed ==
    /\ r_pc = "loop"
    /\ r_closed
    /\ r_pc' \in {"died", "eof"}
    /\ UNCHANGED <<r_closed, r_variant, r_stream, r_total_size, r_total_bytes_reported,
                   r_completed, r_parsed, r_updates, r_final, cmdVars, planVars, jobVars, pipeVars, sizeVars, tuiVars, mainVars, screenVars, listVars>>

\* progress.update(task_id, advance=total_size)
LibFinalUpdateAdvanceTotal(total_size, reported, completed) ==
    IF total_size # NoTotal /\ reported < total_size
    THEN IF 10 * (total_size - reported) < total_size
         THEN <<completed + total_size>>
         ELSE <<>>
    ELSE IF total_size = NoTotal THEN <<reported>> ELSE <<>>

\* the update the lib variant makes after the loop: to the total when it is
\* known and less than a tenth away, to the last reported value when unknown
LibFinalUpdate(total_size, reported, completed) ==
    IF total_size # NoTotal /\ reported < total_size
    THEN IF 10 * (total_size - reported) < total_size
         THEN <<completed + (total_size - reported)>>
         ELSE <<>>
    ELSE IF total_size = NoTotal THEN <<reported>> ELSE <<>>

\* the update the app variant makes after the loop, from the total the
\* screen holds at that moment
AppFinalUpdate(final_total, reported) ==
    IF final_total # NoTotal /\ final_total > 0 THEN <<final_total>>
    ELSE IF reported > 0 THEN <<reported>> ELSE <<>>

\* the step after the loop
EndOfStream ==
    /\ r_pc = "eof"
    /\ r_final' = IF r_variant = "lib"
                  THEN LibFinalUpdate(r_total_size, r_total_bytes_reported, r_completed)
                  ELSE AppFinalUpdate(r_total_size, r_total_bytes_reported)
    /\ r_completed' = IF r_final' # <<>> THEN r_final'[1] ELSE r_completed
    /\ r_pc' = "done"
    /\ UNCHANGED <<r_closed, r_variant, r_stream, r_total_size, r_total_bytes_reported,
                   r_parsed, r_updates, cmdVars, planVars, jobVars, pipeVars, sizeVars, tuiVars, mainVars, screenVars, listVars>>

-----------------------------------------------------------------------------
(* ---------------- _parse_zfs_size, both variants ---------------- *)

(* A string is a sequence of one-character strings.  An integer result is  *)
(* held as its digits in base 1024, most significant first and without    *)
(* leading zeros, so that sizes up to the P unit can be computed exactly. *)
(* float() is modelled for the inputs drawn here: blanks around the text,  *)
(* an unsigned decimal number, "inf", "infinity" and "nan"; signs,         *)
(* exponents and underscores are not part of any input.  A number of up    *)
(* to MaxLen digits is held exactly by a double, and so is its product     *)
(* with a power of 1024.                                                   *)

LowerCase == <<"a", "b", "c", "d", "e", "f", "g", "h", "i", "j", "k", "l", "m",
               "n", "o", "p", "q", "r", "s", "t", "u", "v", "w", "x", "y", "z">>

UpperCase == <<"A", "B", "C", "D", "E", "F", "G", "H", "I", "J", "K", "L", "M",
               "N", "O", "P", "Q", "R", "S", "T", "U", "V", "W", "X", "Y", "Z">>

\* size_str.upper()
Upper(str) ==
    [i \in DOMAIN str |->
        IF \E k \in DOMAIN LowerCase : LowerCase[k] = str[i]
        THEN UpperCase[CHOOSE k \in DOMAIN LowerCase : LowerCase[k] = str[i]]
        ELSE str[i]]

\* str.strip(), and the blanks float() ignores
RECURSIVE Strip(_)
Strip(str) ==
    IF str = <<>> THEN <<>>
    ELSE IF Head(str) = " " THEN Strip(Tail(str))
    ELSE IF str[Len(str)] = " " THEN Strip(SubSeq(str, 1, Len(str) - 1))
    ELSE str

\* size_str.endswith(c)
EndsWith(str, c) == str # <<>> /\ str[Len(str)] = c

\* size_str[:-1]
DropLast(str) == SubSeq(str, 1, Len(str) - 1)

\* unit_multipliers: the power of 1024 of each unit
unit_multipliers == [K |-> 1, M |-> 2, G |-> 3, T |-> 4, P |-> 5]

Units == {"K", "M", "G", "T", "P"}

UnitPower(unit) ==
    CASE unit = "K" -> unit_multipliers.K
      [] unit = "M" -> unit_multipliers.M
      [] unit = "G" -> unit_multipliers.G
      [] unit = "T" -> unit_multipliers.T
      [] unit = "P" -> unit_multipliers.P
      [] OTHER -> 0

DigitChars == <<"0", "1", "2", "3", "4", "5", "6", "7", "8", "9">>

IsDigit(c) == \E k \in DOMAIN DigitChars : DigitChars[k] = c

DigitValue(c) == (CHOOSE k \in DOMAIN DigitChars : DigitChars[k] = c) - 1

\* the value of a string of decimal digits
RECURSIVE DecValue(_)
DecValue(str) ==
    IF str = <<>> THEN 0
    ELSE 10 * DecValue(DropLast(str)) + DigitValue(str[Len(str)])

RECURSIVE Pow10(_)
Pow10(n) == IF n = 0 THEN 1 ELSE 10 * Pow10(n - 1)

\* the digits of a natural number in base 1024
RECURSIVE Base1024(_)
Base1024(n) ==
    IF n = 0 THEN <<>> ELSE Append(Base1024(n \div 1024), n % 1024)

RECURSIVE Normal(_)
Normal(digits) ==
    IF digits # <<>> /\ Head(digits) = 0 THEN Normal(Tail(digits)) ELSE digits

\* int((whole + num/den) * 1024^power)
RECURSIVE Scale(_, _, _, _)
Scale(digits, num, den, power) ==
    IF power = 0 THEN Normal(digits)
    ELSE Scale(Append(digits, (num * 1024) \div den), (num * 1024) % den,
               den, power - 1)

\* float(size_str): a number whole + num/den, an infinity, a NaN, or a
\* ValueError
Float(str) ==
    LET text  == Upper(Strip(str))
        dots  == {i \in DOMAIN text : text[i] = "."}
        point == IF dots = {} THEN Len(text) + 1 ELSE CHOOSE i \in dots : TRUE
        whole == SubSeq(text, 1, point - 1)
        frac  == SubSeq(text, point + 1, Len(text))
    IN IF text \in {<<"I", "N", "F">>, <<"I", "N", "F", "I", "N", "I", "T", "Y">>}
       THEN [kind |-> "inf", whole |-> 0, num |-> 0, den |-> 1]
       ELSE IF text = <<"N", "A", "N">>
       THEN [kind |-> "nan", whole |-> 0, num |-> 0, den |-> 1]
       ELSE IF /\ Cardinality(dots) <= 1
               /\ \A i \in DOMAIN text : i \in dots \/ IsDigit(text[i])
               /\ Len(whole) + Len(frac) >= 1
       THEN [kind |-> "number", whole |-> DecValue(whole),
             num |-> DecValue(frac), den |-> Pow10(Len(frac))]
       ELSE [kind |-> "ValueError", whole |-> 0, num |-> 0, den |-> 1]

\* try: size = float(size_str); size *= unit_multipliers[unit];
\* return int(size) / except ValueError: return 0.  int() of an infinity
\* raises OverflowError, int() of a NaN raises ValueError.
FloatToInt(str, unit) ==
    LET size == Float(str)
    IN CASE size.kind = "number" ->
              [raised |-> "none",
               value |-> Scale(Base1024(size.whole), size.num, size.den,
                               UnitPower(unit))]
         [] size.kind = "inf" -> [raised |-> "OverflowError", value |-> <<>>]
         [] OTHER -> [raised |-> "none", value |-> <<>>]

\* _parse_zfs_size of zfs_sync_lib/transfer.py
lib_parse_zfs_size(size_str) ==
    LET upper   == Upper(size_str)
        noB     == IF EndsWith(upper, "B") THEN DropLast(upper) ELSE upper
        hasUnit == noB # <<>> /\ noB[Len(noB)] \in Units
    IN IF hasUnit THEN FloatToInt(DropLast(noB), noB[Len(noB)])
       ELSE FloatToInt(noB, "B")

\* _parse_zfs_size of app/transfer.py
app_parse_zfs_size(size_str) ==
    LET upper == Strip(Upper(size_str))
    IN IF upper = <<>> THEN [raised |-> "none", value |-> <<>>]
       ELSE IF upper[Len(upper)] \in Units
       THEN FloatToInt(DropLast(upper), upper[Len(upper)])
       ELSE IF upper[Len(upper)] = "B" /\ Len(upper) > 1
       THEN LET noB == DropLast(upper)
            IN IF noB[Len(noB)] \in Units
               THEN FloatToInt(DropLast(noB), noB[Len(noB)])
               ELSE FloatToInt(noB, "B")
       ELSE FloatToInt(upper, "B")

\* the characters the drawn inputs are made of
SizeAlphabet == {"0", "1", "5", ".", "K", "M", "B", "i", "n", "f", " "}

\* inputs longer than MaxLen
SizeExamples ==
    { <<"1", ".", "5", "G">>, <<"1", "0", "0", "M">>,
      <<"g", "a", "r", "b", "a", "g", "e">>,
      <<"1", ".", "5", "G", "B">>, <<"1", "0", "0", "K", "B">>,
      <<"2", ".", "5", "T">>, <<"1", ".", "5", "P", "B">>,
      <<"6", "1", "5", " ", "M", "i", "B">>,
      <<"i", "n", "f", "i", "n", "i", "t", "y">>, <<"n", "a", "n">>,
      <<"i", "n", "f", "G">>,
      <<"1", "K", "i", "B">>, <<"1", " ", "K", "B">>,
      <<"1", ".", "5", " ", "G", "i", "B">> }

NoResult == [raised |-> "not-called", value |-> <<>>]

SizeIdle ==
    /\ z_variant = "off"
    /\ z_input = <<>>
    /\ z_pc = "off"
    /\ z_result = NoResult

SizeInit ==
    /\ z_variant \in {"lib", "app"}
    /\ z_input \in SeqsUpTo(SizeAlphabet, MaxLen) \cup SizeExamples
    /\ z_pc = "call"
    /\ z_result = NoResult

\* one call of _parse_zfs_size
ParseSize ==
    /\ z_pc = "call"
    /\ z_result' = IF z_variant = "lib" THEN lib_parse_zfs_size(z_input)
                   ELSE app_parse_zfs_size(z_input)
    /\ z_pc' = "done"
    /\ UNCHANGED <<z_variant, z_input, cmdVars, planVars, jobVars, pipeVars,
                   readerVars, tuiVars, mainVars, screenVars, listVars>>

-----------------------------------------------------------------------------
(* ---------------- app/tui/screens/transfer.py : TransferScreen ---------------- *)

(* The worker is followed from one await to the next.  The calls into the *)
(* UI library are taken to do what their names say:                       *)
(* run_sync_in_worker_thread runs the function and gives its result,      *)
(* call_from_thread delivers the message, and after app.exit() the screen *)
(* handles no more messages and the worker may be cancelled at an await.  *)

\* build_sanoid_command(action, run_config), app/utils.py
build_sanoid_command(action, run_config) ==
    <<"libs/sanoid/sanoid", "--configdir">>
    \o (IF action = "take" THEN <<"--take-snapshots">> ELSE <<"--prune-snapshots">>)
    \o (IF AppDryRun(run_config) THEN <<"--readonly">> ELSE <<>>)

\* the syncoid command of perform_transfer, with -n inserted for a dry run
SyncoidCmd(dry_run) ==
    <<"libs/sanoid/syncoid">> \o (IF dry_run THEN <<"-n">> ELSE <<>>)
    \o <<"--progress", "tank", "bak">>

\* one command handed to execute_command or to Popen
Issued(argv, host, executed) ==
    [argv |-> argv, host |-> host, executed |-> executed]

\* the part of run_config that execute_command reads
RunConfig == [DRY_RUN |-> t_cfg.DRY_RUN, dry_run |-> t_cfg.dry_run]

TuiConfigs ==
    [DRY_RUN : BOOLEAN, dry_run : {"absent", "true", "false"},
     source_host : {"local", "hostA"}, dest_host : {"local", "hostB"}]

TuiIdle ==
    /\ t_cfg = [DRY_RUN |-> FALSE, dry_run |-> "absent",
                source_host |-> "local", dest_host |-> "local"]
    /\ t_pc = "off"
    /\ t_issued = {}
    /\ t_src_exists = "none"
    /\ t_snap_success = "none"
    /\ t_success = FALSE
    /\ t_prune = "none"
    /\ t_proc = "none"
    /\ t_rc = 0
    /\ t_posted = "none"
    /\ t_finished = FALSE
    /\ t_transfer_success = FALSE
    /\ t_quit = FALSE
    /\ t_quit_running = FALSE

\* on_mount has started the worker
TuiInit ==
    /\ t_cfg \in TuiConfigs
    /\ t_pc = "src_check"
    /\ t_issued = {}
    /\ t_src_exists = "none"
    /\ t_snap_success = "none"
    /\ t_success = FALSE
    /\ t_prune = "none"
    /\ t_proc = "none"
    /\ t_rc = 0
    /\ t_posted = "none"
    /\ t_finished = FALSE
    /\ t_transfer_success = FALSE
    /\ t_quit = FALSE
    /\ t_quit_running = FALSE

\* has_dataset of app/zfs.py: zfs list with check=True, any error is False
app_has_dataset(outcome) ==
    AppExecuteCommand(<<"zfs", "list", "tank">>, FALSE, RunConfig, TRUE,
                      outcome).raised = "none"

\* has_dataset(src_dataset, ...); a missing source raises, and the except
\* clause leaves success False
TuiCheckSource ==
    /\ t_pc = "src_check"
    /\ \E outcome \in Outcomes :
          /\ t_issued' = t_issued \cup
                 {Issued(<<"zfs", "list", "tank">>, t_cfg.source_host, TRUE)}
          /\ t_src_exists' = IF app_has_dataset(outcome) THEN "true" ELSE "false"
          /\ t_pc' = IF app_has_dataset(outcome) THEN "dst_check" ELSE "post"
    /\ t_success' = FALSE
    /\ UNCHANGED <<t_cfg, t_snap_success, t_prune, t_proc, t_rc, t_posted,
                   t_finished, t_transfer_success, t_quit, t_quit_running,
                   cmdVars, planVars, jobVars, pipeVars, readerVars, sizeVars, mainVars, screenVars, listVars>>

\* has_dataset(dst_dataset, ...); either answer is only logged
TuiCheckDest ==
    /\ t_pc = "dst_check"
    /\ t_issued' = t_issued \cup
           {Issued(<<"zfs", "list", "bak">>, t_cfg.dest_host, TRUE)}
    /\ t_pc' = "take"
    /\ UNCHANGED <<t_cfg, t_src_exists, t_snap_success, t_success, t_prune, t_proc, t_rc,
                   t_posted, t_finished, t_transfer_success, t_quit,
                   t_quit_running,
                   cmdVars, planVars, jobVars, pipeVars, readerVars, sizeVars, mainVars, screenVars, listVars>>

\* run_sanoid_command_async(screen, action, host, ...): execute_command with
\* check=True, True when nothing is raised
run_sanoid_command_async(action, outcome) ==
    AppExecuteCommand(build_sanoid_command(action, RunConfig), FALSE, RunConfig,
                      TRUE, outcome)

\* if not snap_success: raise Exception(...), which skips the transfer
AfterTakeAlways(snap_success) == "transfer"

AfterTake(snap_success) == IF snap_success THEN "transfer" ELSE "post"

\* the sanoid take step on the source host
TuiTake ==
    /\ t_pc = "take"
    /\ \E outcome \in Outcomes :
          LET ret == run_sanoid_command_async("take", outcome)
          IN /\ t_issued' = t_issued \cup
                    {Issued(build_sanoid_command("take", RunConfig),
                            t_cfg.source_host, ret.executed)}
             /\ t_snap_success' = IF ret.raised = "none" THEN "true" ELSE "false"
             /\ t_pc' = AfterTake(ret.raised = "none")
    /\ UNCHANGED <<t_cfg, t_src_exists, t_success, t_prune, t_proc, t_rc, t_posted,
                   t_finished, t_transfer_success, t_quit, t_quit_running,
                   cmdVars, planVars, jobVars, pipeVars, readerVars, sizeVars, mainVars, screenVars, listVars>>

\* perform_transfer in a dry run: execute_syncoid_transfer runs syncoid -n
\* through execute_command with check=True and fails when that raises
TuiTransferDry ==
    /\ t_pc = "transfer"
    /\ AppDryRun(RunConfig)
    /\ \E outcome \in Outcomes :
          LET ret == AppExecuteCommand(SyncoidCmd(TRUE), FALSE, RunConfig, TRUE,
                                       outcome)
          IN /\ t_issued' = t_issued \cup
                    {Issued(SyncoidCmd(TRUE), "local", ret.executed)}
             /\ t_success' = (ret.raised = "none")
    /\ t_pc' = "prune"
    /\ UNCHANGED <<t_cfg, t_src_exists, t_snap_success, t_prune, t_proc, t_rc, t_posted,
                   t_finished, t_transfer_success, t_quit, t_quit_running,
                   cmdVars, planVars, jobVars, pipeVars, readerVars, sizeVars, mainVars, screenVars, listVars>>

\* perform_transfer for real: Popen(syncoid_cmd) and the reader thread are
\* started, communicate() is entered
TuiSpawn ==
    /\ t_pc = "transfer"
    /\ ~AppDryRun(RunConfig)
    /\ t_issued' = t_issued \cup {Issued(SyncoidCmd(FALSE), "local", TRUE)}
    /\ t_proc' = "running"
    /\ t_pc' = "communicate"
    /\ UNCHANGED <<t_cfg, t_src_exists, t_snap_success, t_success, t_prune, t_rc, t_posted,
                   t_finished, t_transfer_success, t_quit, t_quit_running,
                   cmdVars, planVars, jobVars, pipeVars, readerVars, sizeVars, mainVars, screenVars, listVars>>

\* Popen raises (no process), or the reader thread cannot be started (the
\* process runs and the finally block terminates it); success stays False
TuiSpawnRaises ==
    /\ t_pc = "transfer"
    /\ ~AppDryRun(RunConfig)
    /\ t_issued' = t_issued \cup {Issued(SyncoidCmd(FALSE), "local", TRUE)}
    /\ t_proc' \in {"none", "terminated"}
    /\ t_success' = FALSE
    /\ t_pc' = "prune"
    /\ UNCHANGED <<t_cfg, t_src_exists, t_snap_success, t_prune, t_rc, t_posted,
                   t_finished, t_transfer_success, t_quit, t_quit_running,
                   cmdVars, planVars, jobVars, pipeVars, readerVars, sizeVars, mainVars, screenVars, listVars>>

\* the syncoid process ends by itself
TuiSyncoidExits ==
    /\ t_proc = "running"
    /\ t_proc' = "exited"
    /\ t_rc' \in {0, 1}
    /\ UNCHANGED <<t_cfg, t_src_exists, t_pc, t_issued, t_snap_success, t_success, t_prune,
                   t_posted, t_finished, t_transfer_success, t_quit,
                   t_quit_running,
                   cmdVars, planVars, jobVars, pipeVars, readerVars, sizeVars, mainVars, screenVars, listVars>>

\* communicate() returns: success is return_code == 0
TuiCommunicate ==
    /\ t_pc = "communicate"
    /\ t_proc = "exited"
    /\ t_success' = (t_rc = 0)
    /\ t_pc' = "prune"
    /\ UNCHANGED <<t_cfg, t_src_exists, t_issued, t_snap_success, t_prune, t_proc, t_rc,
                   t_posted, t_finished, t_transfer_success, t_quit,
                   t_quit_running,
                   cmdVars, planVars, jobVars, pipeVars, readerVars, sizeVars, mainVars, screenVars, listVars>>

\* success = success and prune_success
AfterPruneStrict(success, prune_success) == success /\ prune_success

\* if not prune_success: only a warning is logged, success is left as it is
AfterPrune(success, prune_success) == success

\* if success and not run_config.get('DRY_RUN', False): sanoid prune on the
\* destination host, its failure only logged; otherwise the step is skipped
TuiPrune ==
    /\ t_pc = "prune"
    /\ IF t_success /\ ~RunConfig.DRY_RUN
       THEN \E outcome \in Outcomes :
               LET ret == run_sanoid_command_async("prune", outcome)
               IN /\ t_issued' = t_issued \cup
                         {Issued(build_sanoid_command("prune", RunConfig),
                                 t_cfg.dest_host, ret.executed)}
                  /\ t_prune' = IF ret.raised = "none" THEN "ok" ELSE "failed"
                  /\ t_success' = AfterPrune(t_success, ret.raised = "none")
       ELSE /\ t_prune' = "skipped"
            /\ UNCHANGED <<t_issued, t_success>>
    /\ t_pc' = "post"
    /\ UNCHANGED <<t_cfg, t_src_exists, t_snap_success, t_proc, t_rc, t_posted,
                   t_finished, t_transfer_success, t_quit, t_quit_running,
                   cmdVars, planVars, jobVars, pipeVars, readerVars, sizeVars, mainVars, screenVars, listVars>>

\* TransferFinished(True) whatever success holds
FinishedMessageTrue(success) == "true"

\* TransferFinished(success)
FinishedMessage(success) == IF success THEN "true" ELSE "false"

\* finally: post TransferFinished(success)
TuiPost ==
    /\ t_pc = "post"
    /\ t_posted' = FinishedMessage(t_success)
    /\ t_pc' = "done"
    /\ UNCHANGED <<t_cfg, t_src_exists, t_issued, t_snap_success, t_success, t_prune, t_proc,
                   t_rc, t_finished, t_transfer_success, t_quit, t_quit_running,
                   cmdVars, planVars, jobVars, pipeVars, readerVars, sizeVars, mainVars, screenVars, listVars>>

\* on_transfer_finished, while the app runs
on_transfer_finished ==
    /\ t_posted # "none"
    /\ ~t_finished
    /\ ~t_quit
    /\ t_finished' = TRUE
    /\ t_transfer_success' = (t_posted = "true")
    /\ UNCHANGED <<t_cfg, t_src_exists, t_pc, t_issued, t_snap_success, t_success, t_prune,
                   t_proc, t_rc, t_posted, t_quit, t_quit_running,
                   cmdVars, planVars, jobVars, pipeVars, readerVars, sizeVars, mainVars, screenVars, listVars>>

\* action_request_quit: notify, set _stop_event (which nothing reads) and
\* exit the app
action_request_quit ==
    /\ t_pc # "off"
    /\ ~t_quit
    /\ t_quit' = TRUE
    /\ t_quit_running' = (t_proc = "running")
    /\ UNCHANGED <<t_cfg, t_src_exists, t_pc, t_issued, t_snap_success, t_success, t_prune,
                   t_proc, t_rc, t_posted, t_finished, t_transfer_success,
                   cmdVars, planVars, jobVars, pipeVars, readerVars, sizeVars, mainVars, screenVars, listVars>>

\* the exiting app cancels the worker at the await it stands at
TuiCancel ==
    /\ t_quit
    /\ t_pc \notin {"off", "done", "cancelled"}
    /\ t_pc' = "cancelled"
    /\ UNCHANGED <<t_cfg, t_src_exists, t_issued, t_snap_success, t_success, t_prune, t_proc,
                   t_rc, t_posted, t_finished, t_transfer_success, t_quit,
                   t_quit_running,
                   cmdVars, planVars, jobVars, pipeVars, readerVars, sizeVars, mainVars, screenVars, listVars>>

-----------------------------------------------------------------------------
(* ---------------- zfs_sync.py : main, the loop over the selected jobs ---------------- *)

\* most jobs in jobs_to_run
MaxJobs == 2

NoExit == [code |-> 0 - 1, by |-> "none"]

\* verify_ssh: True for the local host without a probe; else `zfs version`
\* through execute_command(check=True), which DRY_RUN answers with a stub
\* result; a probe that raises (non-zero exit, timeout, ssh missing) is
\* answered with sys.exit(1), which `except Exception` of run_job lets pass
verify_ssh(host, dry_run, outcome) ==
    IF host = "local" THEN "true"
    ELSE IF dry_run THEN "true"
    ELSE IF outcome = "exit0" THEN "true"
    ELSE "exit"

MainJobs == [source_host : {"local", "hostA"}, dest_host : {"local", "hostB"}]

MainIdle ==
    /\ m_jobs = <<>>
    /\ m_dry = FALSE
    /\ m_i = 1
    /\ m_pc = "off"
    /\ m_results = <<>>
    /\ m_overall_success = TRUE
    /\ m_exit = NoExit

\* main has parsed its arguments: jobs_to_run is not empty
MainInit ==
    /\ m_jobs \in UNION { [1..n -> MainJobs] : n \in 1..MaxJobs }
    /\ m_dry \in BOOLEAN
    /\ m_i = 1
    /\ m_pc = "loop"
    /\ m_results = <<>>
    /\ m_overall_success = TRUE
    /\ m_exit = NoExit

\* for job_name in jobs_to_run: run_job(job_config, config) is entered
MainNextJob ==
    /\ m_pc = "loop"
    /\ m_i <= Len(m_jobs)
    /\ m_pc' = "verify_source"
    /\ UNCHANGED <<m_jobs, m_dry, m_i, m_results, m_overall_success, m_exit,
                   cmdVars, planVars, jobVars, pipeVars, readerVars, sizeVars, tuiVars, screenVars, listVars>>

\* where a call of verify_ssh inside run_job leaves main
AfterVerify(v, next) ==
    /\ m_pc' = IF v = "true" THEN next ELSE "ended"
    /\ m_exit' = IF v = "true" THEN m_exit ELSE [code |-> 1, by |-> "verify_ssh"]

\* verify_ssh(source_host, ssh_user, run_config)
MainVerifySource ==
    /\ m_pc = "verify_source"
    /\ \E outcome \in Outcomes :
        AfterVerify(verify_ssh(m_jobs[m_i].source_host, m_dry, outcome), "verify_dest")
    /\ UNCHANGED <<m_jobs, m_dry, m_i, m_results, m_overall_success,
                   cmdVars, planVars, jobVars, pipeVars, readerVars, sizeVars, tuiVars, screenVars, listVars>>

\* verify_ssh(dest_host, ssh_user, run_config)
MainVerifyDest ==
    /\ m_pc = "verify_dest"
    /\ \E outcome \in Outcomes :
        AfterVerify(verify_ssh(m_jobs[m_i].dest_host, m_dry, outcome), "body")
    /\ UNCHANGED <<m_jobs, m_dry, m_i, m_results, m_overall_success,
                   cmdVars, planVars, jobVars, pipeVars, readerVars, sizeVars, tuiVars, screenVars, listVars>>

\* the rest of run_job returns True or False (every Exception is caught
\* and answered with False); main records a failure and goes on
MainRunJob ==
    /\ m_pc = "body"
    /\ \E success \in BOOLEAN :
        /\ m_results' = Append(m_results, success)
        /\ m_overall_success' = (m_overall_success /\ success)
    /\ m_i' = m_i + 1
    /\ m_pc' = "loop"
    /\ UNCHANGED <<m_jobs, m_dry, m_exit,
                   cmdVars, planVars, jobVars, pipeVars, readerVars, sizeVars, tuiVars, screenVars, listVars>>

\* after the loop: main returns (exit code 0) or calls sys.exit(1)
MainFinish ==
    /\ m_pc = "loop"
    /\ m_i > Len(m_jobs)
    /\ m_pc' = "ended"
    /\ m_exit' = [code |-> IF m_overall_success THEN 0 ELSE 1, by |-> "main"]
    /\ UNCHANGED <<m_jobs, m_dry, m_i, m_results, m_overall_success,
                   cmdVars, planVars, jobVars, pipeVars, readerVars, sizeVars, tuiVars, screenVars, listVars>>

-----------------------------------------------------------------------------
(* ---------------- app/transfer.py and TransferScreen : progress ---------------- *)
(* Three threads: the worker thread runs perform_transfer and then posts     *)
(* TransferFinished; the reader thread runs _process_zfs_stderr; the UI      *)
(* thread runs the message handlers.  update_progress goes through           *)
(* call_from_thread(post_message, ...): the message is put on the queue of   *)
(* the screen and handled later by the UI thread.  on_log_message writes to  *)
(* the Log widget only, so LogMessages are left out of the queue.            *)

\* most progress lines syncoid writes
MaxProgress == 2

\* largest size a progress line carries
MaxSize == 2

\* the action of a ProgressUpdate that carries none
NoAction == "None"

ProgressUpdate(completed, total, action) ==
    [type |-> "ProgressUpdate", completed |-> completed, total |-> total,
     action |-> action, success |-> FALSE]

TransferFinished(success) ==
    [type |-> "TransferFinished", completed |-> 0, total |-> NoTotal,
     action |-> NoAction, success |-> success]

\* TransferScreen.update_progress as the mutant writes it: the attributes
\* are assigned by the calling thread
update_progress_direct(queue, ui, completed, total, action) ==
    [queue |-> queue,
     ui |-> [ui EXCEPT !.total_bytes = total, !.completed_bytes = completed]]

\* TransferScreen.update_progress: posts a ProgressUpdate, assigns nothing
update_progress(queue, ui, completed, total, action) ==
    [queue |-> Append(queue, ProgressUpdate(completed, total, action)), ui |-> ui]

\* the reactive attributes as the class sets them
ScreenStart ==
    [current_action |-> "Initializing Transfer...", total_bytes |-> NoTotal,
     completed_bytes |-> 0, transfer_finished |-> FALSE, transfer_success |-> FALSE]

\* the lines syncoid --progress can write: completed and total as parsed
ProgressLines == [completed : 1..MaxSize, total : 1..MaxSize]

ScreenIdle ==
    /\ u_dry = FALSE
    /\ u_pipe = <<>>
    /\ u_closed = FALSE
    /\ u_w_pc = "off"
    /\ u_rc = 0
    /\ u_success = FALSE
    /\ u_r_pc = "off"
    /\ u_reported = 0
    /\ u_queue = <<>>
    /\ u_events = <<>>
    /\ u_ui = ScreenStart
    /\ u_extra = "none"
    /\ u_spawned = <<>>

\* SSH_EXTRA_OPTIONS: none, or one option of ssh (-n keeps ssh from
\* reading stdin, -C compresses)
SshExtraOptions == {"none", "-n", "-C"}

\* perform_transfer: syncoid_cmd = [syncoid_executable], then --sshoption
\* for each ssh option, then source and destination, with the
\* SSH_EXTRA_OPTIONS that SyncoidCmd leaves out (the options every command
\* carries alike are left out here too)
BuildSyncoidCmd(extra) ==
    <<"libs/sanoid/syncoid">>
    \o (IF extra # "none" THEN <<"--sshoption", extra>> ELSE <<>>)
    \o <<"tank", "bak">>

\* if '-n' not in syncoid_cmd: syncoid_cmd.insert(1, '-n')
EstimateCmd(syncoid_cmd) ==
    IF Contains(syncoid_cmd, "-n") THEN syncoid_cmd
    ELSE <<Head(syncoid_cmd), "-n">> \o Tail(syncoid_cmd)

\* the worker is about to call perform_transfer
ScreenInit ==
    /\ u_dry \in BOOLEAN
    /\ u_pipe \in (IF u_dry THEN {<<>>} ELSE SeqsUpTo(ProgressLines, MaxProgress))
    /\ u_closed = FALSE
    /\ u_w_pc = "initial"
    /\ u_rc = 0
    /\ u_success = FALSE
    /\ u_r_pc = "off"
    /\ u_reported = 0
    /\ u_queue = <<>>
    /\ u_events = <<>>
    /\ u_ui = ScreenStart
    /\ u_extra \in SshExtraOptions
    /\ u_spawned = <<>>

\* a thread calls update_progress: the worker, or the reader thread for a
\* progress line or in its end-of-stream step
Post(completed, total, action, by) ==
    LET p == update_progress(u_queue, u_ui, completed, total, action)
    IN /\ u_queue' = p.queue
       /\ u_ui' = p.ui
       /\ u_events' = Append(u_events, [completed |-> completed, total |-> total,
                                        by |-> by])

\* perform_transfer: app.update_progress(completed=0, total=None, "Initializing...")
ScreenInitial ==
    /\ u_w_pc = "initial"
    /\ Post(0, NoTotal, "Initializing...", "worker")
    /\ u_w_pc' = "execute"
    /\ UNCHANGED <<u_extra, u_spawned, u_dry, u_pipe, u_closed, u_rc, u_success, u_r_pc, u_reported, cmdVars, planVars, jobVars, pipeVars, readerVars, sizeVars, tuiVars, mainVars, listVars>>

\* execute_syncoid_transfer, dry run: the estimate command goes through
\* execute_command with check=True; the estimate is parsed from its output,
\* or not found in it, or the call raises and False is returned
ScreenDryRun ==
    /\ u_w_pc = "execute"
    /\ u_dry
    /\ \E outcome \in Outcomes :
        LET cmd == EstimateCmd(BuildSyncoidCmd(u_extra))
            ret == AppExecuteCommand(cmd, FALSE, [DRY_RUN |-> TRUE, dry_run |-> "absent"],
                                     TRUE, outcome)
        IN /\ u_spawned' = IF ret.executed THEN Append(u_spawned, cmd) ELSE u_spawned
           /\ IF ret.raised = "none"
              THEN /\ \/ \E estimated_size \in 0..MaxSize :
                            Post(estimated_size, estimated_size, "Dry Run Complete", "worker")
                      \/ Post(1, 1, "Dry Run Complete (Size Unknown)", "worker")
                   /\ u_success' = TRUE
              ELSE /\ Post(1, 1, "Dry Run Failed", "worker")
                   /\ u_success' = FALSE
    /\ u_w_pc' = "final"
    /\ UNCHANGED <<u_extra, u_dry, u_pipe, u_closed, u_rc, u_r_pc, u_reported, cmdVars, planVars, jobVars, pipeVars, readerVars, sizeVars, tuiVars, mainVars, listVars>>

\* execute_syncoid_transfer: Popen, the reader thread is started,
\* communicate() is entered
ScreenSpawn ==
    /\ u_w_pc = "execute"
    /\ ~u_dry
    /\ u_spawned' = Append(u_spawned, BuildSyncoidCmd(u_extra))
    /\ u_r_pc' = "loop"
    /\ u_w_pc' = "communicate"
    /\ UNCHANGED <<u_extra, u_dry, u_pipe, u_closed, u_rc, u_success, u_reported, u_queue,
                   u_events, u_ui, cmdVars, planVars, jobVars, pipeVars, readerVars, sizeVars, tuiVars, mainVars, listVars>>

\* Popen raises: no process, no thread, success stays False
ScreenSpawnRaises ==
    /\ u_w_pc = "execute"
    /\ ~u_dry
    /\ u_pipe' = <<>>
    /\ u_success' = FALSE
    /\ u_w_pc' = "final"
    /\ UNCHANGED <<u_extra, u_spawned, u_dry, u_closed, u_rc, u_r_pc, u_reported, u_queue, u_events, u_ui,
                   cmdVars, planVars, jobVars, pipeVars, readerVars, sizeVars, tuiVars, mainVars, listVars>>

\* communicate() reads stdout and stderr: the process was started with
\* stderr=PIPE, so what communicate reads from stderr the thread never sees
ScreenCommunicateReads ==
    /\ u_w_pc = "communicate"
    /\ ~u_closed
    /\ u_pipe # <<>>
    /\ u_pipe' = Tail(u_pipe)
    /\ UNCHANGED <<u_extra, u_spawned, u_dry, u_closed, u_w_pc, u_rc, u_success, u_r_pc, u_reported,
                   u_queue, u_events, u_ui, cmdVars, planVars, jobVars, pipeVars, readerVars, sizeVars, tuiVars, mainVars, listVars>>

\* communicate() reaches the end of both pipes, closes them and waits for
\* the process
ScreenCommunicateReturns ==
    /\ u_w_pc = "communicate"
    /\ u_pipe = <<>>
    /\ u_closed' = TRUE
    /\ u_rc' \in {0, 1}
    /\ u_w_pc' = "join"
    /\ UNCHANGED <<u_extra, u_spawned, u_dry, u_pipe, u_success, u_r_pc, u_reported, u_queue, u_events,
                   u_ui, cmdVars, planVars, jobVars, pipeVars, readerVars, sizeVars, tuiVars, mainVars, listVars>>

\* stderr_thread.join(timeout=5): the thread has ended, or the five seconds
\* have passed; success = (return_code == 0)
ScreenJoin ==
    /\ u_w_pc = "join"
    /\ u_success' = (u_rc = 0)
    /\ u_w_pc' = "final"
    /\ UNCHANGED <<u_extra, u_spawned, u_dry, u_pipe, u_closed, u_rc, u_r_pc, u_reported, u_queue,
                   u_events, u_ui, cmdVars, planVars, jobVars, pipeVars, readerVars, sizeVars, tuiVars, mainVars, listVars>>

\* perform_transfer: app.update_progress(completed=app.completed_bytes,
\* total=app.total_bytes, action="Complete" or "Failed"), read by the worker
ScreenFinal ==
    /\ u_w_pc = "final"
    /\ Post(u_ui.completed_bytes, u_ui.total_bytes,
            IF u_success THEN "Complete" ELSE "Failed", "worker")
    /\ u_w_pc' = "finished"
    /\ UNCHANGED <<u_extra, u_spawned, u_dry, u_pipe, u_closed, u_rc, u_success, u_r_pc, u_reported, cmdVars, planVars, jobVars, pipeVars, readerVars, sizeVars, tuiVars, mainVars, listVars>>

\* run_transfer_worker, finally: post_message(TransferFinished(success))
ScreenPostFinished ==
    /\ u_w_pc = "finished"
    /\ u_queue' = Append(u_queue, TransferFinished(u_success))
    /\ u_w_pc' = "done"
    /\ UNCHANGED <<u_extra, u_spawned, u_dry, u_pipe, u_closed, u_rc, u_success, u_r_pc, u_reported,
                   u_events, u_ui, cmdVars, planVars, jobVars, pipeVars, readerVars, sizeVars, tuiVars, mainVars, listVars>>

\* the reader thread reads a line with a progress match: the update is
\* posted when completed is above the last reported value
ScreenReadLine ==
    /\ u_r_pc = "loop"
    /\ ~u_closed
    /\ u_pipe # <<>>
    /\ u_pipe' = Tail(u_pipe)
    /\ LET line == Head(u_pipe)
       IN IF Advances(line.completed, u_reported)
          THEN /\ Post(line.completed, line.total, NoAction, "line")
               /\ u_reported' = line.completed
          ELSE UNCHANGED <<u_reported, u_queue, u_events, u_ui>>
    /\ UNCHANGED <<u_extra, u_spawned, u_dry, u_closed, u_w_pc, u_rc, u_success, u_r_pc, cmdVars, planVars, jobVars, pipeVars, readerVars, sizeVars, tuiVars, mainVars, listVars>>

\* readline() returns no bytes: the loop ends
ScreenReadEOF ==
    /\ u_r_pc = "loop"
    /\ ~u_closed
    /\ u_pipe = <<>>
    /\ u_r_pc' = "eof"
    /\ UNCHANGED <<u_extra, u_spawned, u_dry, u_pipe, u_closed, u_w_pc, u_rc, u_success, u_reported,
                   u_queue, u_events, u_ui, cmdVars, planVars, jobVars, pipeVars, readerVars, sizeVars, tuiVars, mainVars, listVars>>

\* the pipe object was closed by communicate(): readline() raises
\* ValueError, which `except OSError` does not catch, and the thread ends;
\* or the poll had timed out and stderr_pipe.closed ends the loop
ScreenReadClosed ==
    /\ u_r_pc = "loop"
    /\ u_closed
    /\ u_r_pc' \in {"died", "eof"}
    /\ UNCHANGED <<u_extra, u_spawned, u_dry, u_pipe, u_closed, u_w_pc, u_rc, u_success, u_reported,
                   u_queue, u_events, u_ui, cmdVars, planVars, jobVars, pipeVars, readerVars, sizeVars, tuiVars, mainVars, listVars>>

\* after the loop: final_total = app.total_bytes as the reader thread reads
\* it; the update is to the total when it is known, else to the last
\* reported value
ScreenEndOfStream ==
    /\ u_r_pc = "eof"
    /\ LET final == AppFinalUpdate(u_ui.total_bytes, u_reported)
       IN IF final # <<>>
          THEN Post(final[1], final[1], NoAction, "eos")
          ELSE UNCHANGED <<u_queue, u_events, u_ui>>
    /\ u_r_pc' = "done"
    /\ UNCHANGED <<u_extra, u_spawned, u_dry, u_pipe, u_closed, u_w_pc, u_rc, u_success, u_reported, cmdVars, planVars, jobVars, pipeVars, readerVars, sizeVars, tuiVars, mainVars, listVars>>

\* what a handler makes of the attributes
Handle(message, ui) ==
    IF message.type = "ProgressUpdate"
    THEN [ui EXCEPT !.current_action = IF message.action # NoAction
                                       THEN message.action ELSE @,
                    !.total_bytes = message.total,
                    !.completed_bytes = message.completed]
    ELSE [ui EXCEPT !.transfer_finished = TRUE,
                    !.transfer_success = message.success]

\* the UI thread handles a ProgressUpdate
on_progress_update ==
    /\ u_queue # <<>>
    /\ Head(u_queue).type = "ProgressUpdate"
    /\ u_ui' = Handle(Head(u_queue), u_ui)
    /\ u_queue' = Tail(u_queue)
    /\ UNCHANGED <<u_extra, u_spawned, u_dry, u_pipe, u_closed, u_w_pc, u_rc, u_success, u_r_pc,
                   u_reported, u_events, cmdVars, planVars, jobVars, pipeVars, readerVars, sizeVars, tuiVars, mainVars, listVars>>

\* the UI thread handles the TransferFinished of the worker
ScreenOnTransferFinished ==
    /\ u_queue # <<>>
    /\ Head(u_queue).type = "TransferFinished"
    /\ u_ui' = Handle(Head(u_queue), u_ui)
    /\ u_queue' = Tail(u_queue)
    /\ UNCHANGED <<u_extra, u_spawned, u_dry, u_pipe, u_closed, u_w_pc, u_rc, u_success, u_r_pc,
                   u_reported, u_events, cmdVars, planVars, jobVars, pipeVars, readerVars, sizeVars, tuiVars, mainVars, listVars>>

-----------------------------------------------------------------------------
(* ---------------- zfs_sync_lib/zfs.py : listings with child datasets ---------------- *)
(* zfs list -t snapshot -o name,guid -Hpr <dataset> lists the snapshots of  *)
(* the dataset and then those of its descendants, whatever the job's        *)
(* recursive setting.  A pool is held as the guid of each snapshot name on  *)
(* the dataset itself and on one child, 0 when the snapshot does not exist. *)

\* largest guid of a listing
MaxGuid == 3

ListNames == <<<<PrefixCh, DigitBase>>, <<PrefixCh, DigitBase + 1>>>>

ListDatasets == <<"self", "child">>

\* the pools: guids are unique within a pool
ListPools ==
    {pool \in [{"self", "child"} -> [DOMAIN ListNames -> 0..MaxGuid]] :
        \A d1, d2 \in {"self", "child"}, n1, n2 \in DOMAIN ListNames :
            (pool[d1][n1] # 0 /\ pool[d1][n1] = pool[d2][n2]) => (d1 = d2 /\ n1 = n2)}

\* the lines of the listing: full name and guid, dataset by dataset
Listing(pool) ==
    LET lines == [k \in 1..(Len(ListDatasets) * Len(ListNames)) |->
                    LET d == ListDatasets[((k - 1) \div Len(ListNames)) + 1]
                        n == ((k - 1) % Len(ListNames)) + 1
                    IN [dataset |-> d, name |-> ListNames[n], guid |-> pool[d][n]]]
    IN SelectSeq(lines, LAMBDA line : line.guid # 0)

\* the loop over output.splitlines(): snap_name = full_name.split('@', 1)[1]
\* and snapshots[snap_name] = guid, the dataset part of the name dropped
RECURSIVE SnapshotsOfListing(_, _)
SnapshotsOfListing(lines, snapshots) ==
    IF lines = <<>> THEN snapshots
    ELSE SnapshotsOfListing(Tail(lines),
                            DictSet(snapshots, Head(lines).name, Head(lines).guid))

ListIdle ==
    /\ l_src = [d \in {"self", "child"} |-> [n \in DOMAIN ListNames |-> 0]]
    /\ l_dst = [d \in {"self", "child"} |-> [n \in DOMAIN ListNames |-> 0]]
    /\ l_pc = "off"
    /\ l_common = <<>>

ListInit ==
    /\ l_src \in ListPools
    /\ l_dst \in ListPools
    /\ l_pc = "call"
    /\ l_common = <<>>

\* find_verified_common_snapshots on the two datasets
FindCommonListed ==
    /\ l_pc = "call"
    /\ l_common' = find_verified_common_snapshots(
                       SnapshotsOfListing(Listing(l_src), <<>>),
                       SnapshotsOfListing(Listing(l_dst), <<>>))
    /\ l_pc' = "done"
    /\ UNCHANGED <<l_src, l_dst, cmdVars, planVars, jobVars, pipeVars, readerVars, sizeVars, tuiVars, mainVars, screenVars>>

-----------------------------------------------------------------------------
(* ---------------- Claims on execute_command (SpecCmd) ---------------- *)

\* C1 (as claimed): with the global DRY_RUN flag set, whatever the job-level
\* dry_run entry, no call hands a zfs snapshot, destroy, send, receive or
\* rename to subprocess.run, and every zfs list, get or version is handed to it.
C1_GlobalDryRunSpawnsNoAction ==
    (c_calls > 0 /\ c_config.DRY_RUN /\ Basename(c_last.argv[1]) = "zfs") =>
        /\ Subcommand(c_last.argv) \in {"snapshot", "destroy", "send", "receive", "rename"}
               => ~c_last.ret.executed
        /\ Subcommand(c_last.argv) \in {"list", "get", "version"}
               => c_last.ret.executed

\* C17: a call with check=False raises nothing, whatever the command meets
\* (exit 0, a non-zero exit, a missing executable, a timeout), and returns a
\* result object with an exit code, stdout and stderr, i.e. a
\* CompletedProcess.
C17_UncheckedCallReturnsResult ==
    (c_calls > 0 /\ ~c_last.check) =>
        /\ c_last.ret.raised = "none"
        /\ c_last.ret.result = "CompletedProcess"

\* the argv lists the claim names as actions
StatedAction(argv) ==
    LET base == Basename(argv[1]) IN
    \/ /\ base = "zfs"
       /\ Len(argv) > 1
       /\ argv[2] \in {"snapshot", "destroy", "send", "receive", "rename"}
    \/ /\ base = "zfs"
       /\ Len(argv) = 1 \/ argv[2] \notin {"list", "get", "version"}
    \/ /\ base = "sanoid"
       /\ \E i \in DOMAIN argv : argv[i] \in {"--take-snapshots", "--prune-snapshots"}
    \/ /\ base = "syncoid"
       /\ \A i \in DOMAIN argv : argv[i] # "-n"

\* C18: an argv-list command is classified as an action, and so not handed
\* to subprocess.run in a dry run, exactly when it is zfs with a subcommand
\* other than list, get, version (or with none), sanoid with
\* --take-snapshots or --prune-snapshots, or syncoid without -n; every other
\* argv-list command is read-only and is run; the host makes no difference.
C18_ActionClassification ==
    (c_calls > 0 /\ ~c_last.shell) =>
        /\ IsActionCommand(c_last.argv, FALSE) <=> StatedAction(c_last.argv)
        /\ AppDryRun(c_config) =>
               (c_last.ret.executed <=> ~StatedAction(c_last.argv))

\* in a dry run a zfs command with an unlisted subcommand was sent for a
\* remote host and was not handed to subprocess.run
C18_Witness ==
    /\ c_calls > 0
    /\ AppDryRun(c_config)
    /\ ~c_last.shell
    /\ c_last.argv = <<"zfs", "mount">>
    /\ c_last.host = "hostA"
    /\ ~c_last.ret.executed

-----------------------------------------------------------------------------
(* ---------------- Claims on the planner (SpecPlan) ---------------- *)

\* the names present in both dicts with equal guids
VerifiedCommon(src, dst) ==
    { n \in DictKeys(src) \cap DictKeys(dst) : DictGet(src, n) = DictGet(dst, n) }

\* C5: find_verified_common_snapshots returns exactly the names present in
\* both maps with equal guids, each once, in descending lexicographic order;
\* for two identical maps it returns all names.
C5_CommonExactSortedDesc ==
    p_common.done =>
        LET r == p_common.list IN
        /\ Range(r) = VerifiedCommon(p_src, p_dst)
        /\ Len(r) = Cardinality(Range(r))
        /\ \A i \in 1..(Len(r) - 1) : LexLess(r[i + 1], r[i])
        /\ \A i \in DOMAIN r :
              DictHas(p_dst, r[i]) /\ DictGet(p_dst, r[i]) = DictGet(p_src, r[i])
        /\ Range(p_src) = Range(p_dst) => Range(r) = DictKeys(p_src)

\* C5 witness: two names are returned, in another order than the source dict
\* lists them, and a third name with differing guids is left out.
C5_Witness ==
    /\ p_common.done
    /\ Len(p_common.list) >= 2
    /\ p_common.list # CommonLoop(p_src, p_dst)
    /\ \E n \in DictKeys(p_src) \cap DictKeys(p_dst) :
          DictGet(p_src, n) # DictGet(p_dst, n)

\* C7: two planning passes over the same has_dataset answer and equal dicts
\* give the same transfer mode and the same base snapshot.
C7_PlanningIdempotent ==
    (p_plan1 # NoPlan /\ p_plan2 # NoPlan) =>
        /\ p_plan1.mode = p_plan2.mode
        /\ p_plan1.base = p_plan2.base

\* C7 witness: both passes planned Incremental with two or more candidates
\* for the base snapshot.
C7_Witness ==
    /\ p_plan1.mode = "Incremental"
    /\ p_plan2.mode = "Incremental"
    /\ Len(p_common.list) >= 2

-----------------------------------------------------------------------------
(* ---------------- Claims on run_job (SpecJob) ---------------- *)

\* dry run is requested for the job by the global flag or by the job's entry
DryRunRequested(dry) == dry.DRY_RUN \/ dry.dry_run = "true"

\* C2: in a run of run_job with dry run requested, by DRY_RUN or by the job's
\* dry_run entry, no zfs snapshot, zfs destroy or zfs rename process is
\* spawned at any step and no pipeline stage is started.
C2_DryRunSpawnsNoZfsAction ==
    (j_result # "none" /\ DryRunRequested(j_dry))
        => j_spawned \cap {"snapshot", "destroy", "rename", "stage"} = {}

\* C3: a non-dry run that starts from the pool state a dry run started from,
\* with the same job config and no command failing, hands to the executor the
\* pipeline the dry run logged: same mode, base, resume directive, stages.
C3_DryRunLogsRealPipeline ==
    (/\ j_dryrec.set
     /\ j_faults = 0
     /\ ~LibDryRun(j_dry) /\ ~PipelineDryRun(j_dry)
     /\ j_pipeline.built
     /\ j_start = j_dryrec.start)
        => j_pipeline = j_dryrec.pipeline

\* C4: a run that ends with the 'not supported' error of a remote-to-remote
\* job has spawned no snapshot-creating command, no size estimate, no
\* resume-token query, no compression-tool probe and no pipeline stage.
C4_RemoteToRemoteSpawnsNothing ==
    j_reason = "not-supported"
        => j_spawned \cap {"snapshot", "estimate", "token-query", "compress-probe",
                           "stage"} = {}

\* run_job has passed its planning step in the current run
Planned == j_plan # NoPlan

\* C6: run_job plans Full when the destination does not exist, Incremental
\* from the first element of find_verified_common_snapshots when it exists
\* and the list is non-empty, Full when the list is empty; and every step
\* taken from the planning position leaves the run running.
C6_PlanByDestinationAndCommon ==
    /\ [](Planned =>
            /\ ~j_start.dst.exists => j_plan.mode = "Full"
            /\ ~j_dest_exists => j_plan.mode = "Full"
            /\ (j_dest_exists /\ j_common # <<>>)
                  => j_plan = [mode |-> "Incremental", base |-> j_common[1]]
            /\ (j_dest_exists /\ j_common = <<>>) => j_plan.mode = "Full")
    /\ [][j_pc = "plan" => (j_pc' = "snapshot" /\ j_result' = "running" /\ Planned')]_vars

\* an Incremental plan made from a list of two common snapshots
C6_Witness ==
    /\ j_pc = "snapshot"
    /\ j_plan.mode = "Incremental"
    /\ Len(j_common) >= 2
    /\ j_plan.base = j_common[1]

\* C8: when the first run started with the destination absent, planned Full
\* and succeeded, the second run (no outside change, no command failing,
\* max_snapshots at least 1) plans Incremental from a snapshot that both
\* sides hold with the same guid.
C8_SecondRunIncremental ==
    (/\ j_first.set /\ j_first.real /\ ~j_first.dest_existed
     /\ j_first.mode = "Full" /\ j_first.result = "true"
     /\ j_cfg.max_snapshots >= 1
     /\ j_faults = 0
     /\ j_runs = 2 /\ ~LibDryRun(j_dry) /\ Planned)
        => /\ j_plan.mode = "Incremental"
           /\ HasSnap(j_start.src, j_plan.base)
           /\ HasSnap(j_start.dst, j_plan.base)
           /\ DictGet(j_start.src.snaps, j_plan.base) = DictGet(j_start.dst.snaps, j_plan.base)

\* C19: when a pending receive-resume token is used, the send stage built
\* by perform_full_transfer is a resume send: it carries -t and the token,
\* has neither -p nor -R, and names no snapshot.
C19_ResumeSendCarriesOnlyToken ==
    (j_pipeline.built /\ j_pipeline.resume) =>
        \A i \in DOMAIN j_pipeline.stages :
            LET argv == j_pipeline.stages[i].argv IN
            Contains(argv, "send") =>
                /\ Contains(argv, "-t")
                /\ Contains(argv, "TOKEN")
                /\ ~Contains(argv, "-p")
                /\ ~Contains(argv, "-R")
                /\ ~Contains(argv, "SRC@NEW")

\* C23: has_dataset answers true only when a zfs list probe for the dataset
\* was executed on the host and exited zero, under every config, dry run
\* included (run_job goes on to planning only when has_dataset(source) was
\* true, and dest_exists is has_dataset(dest))
C23_TrueOnlyAfterZeroProbe ==
    j_pc = "plan" =>
        /\ LibExecutes(j_dry) /\ j_src.exists
        /\ j_dest_exists => (LibExecutes(j_dry) /\ j_dst.exists)

\* a stage that runs zfs send, by itself or inside an SSH command
HasSend(stage) == Contains(stage.argv, "send")

\* a stage that runs zfs receive, by itself or inside an SSH command
HasReceive(stage) == Contains(stage.argv, "receive")

\* C25: for local to local, local to remote and remote to local, with or
\* without compression, the stage list holds exactly one zfs send and one
\* zfs receive, the send in the first stage and the receive in the last; for
\* remote to local the send is inside the leading SSH stage and no local
\* stage runs zfs send
C25_OneSendFirstOneReceiveLast ==
    j_pipeline.built =>
        LET stages == j_pipeline.stages
        IN /\ Cardinality({k \in DOMAIN stages : HasSend(stages[k])}) = 1
           /\ Cardinality({k \in DOMAIN stages : HasReceive(stages[k])}) = 1
           /\ HasSend(stages[1])
           /\ HasReceive(stages[Len(stages)])
           /\ j_cfg.source_host # "local" =>
                /\ stages[1].via = "ssh-source"
                /\ \A k \in DOMAIN stages :
                       HasSend(stages[k]) => stages[k].via # "local"

\* the send stage carries the resume directive
ResumeDirective(pipeline) ==
    \E k \in DOMAIN pipeline.stages : Contains(pipeline.stages[k].argv, "-t")

\* C26: whichever mode was planned, the pipeline is built with the resume
\* directive when resume support is enabled and the destination reports a
\* pending token, and as a fresh send only when no token is reported or
\* resume is disabled
C26_ResumeWheneverTokenPending ==
    [][(j_pc = "transfer" /\ j_pipeline'.built) =>
        (ResumeDirective(j_pipeline')
            <=> (/\ j_cfg.resume_support
                 /\ get_receive_resume_token(j_dst, LibExecutes(j_dry)).set))]_vars

\* what a cleanup leaves that keeps the `keep` most recently created of the
\* snapshots with the prefix (the listing is in ascending creation order)
KeepsNewest(snaps, keep) ==
    LET prefix == PrefixSnapshots(snaps)
        kept == IF Len(prefix) <= keep THEN Range(prefix)
                ELSE Range(SubSeq(prefix, Len(prefix) - keep + 1, Len(prefix)))
    IN SelectSnaps(snaps, (DictKeys(snaps) \ Range(prefix)) \cup kept)

\* C21: a cleanup whose commands all succeed destroys, on each side, only
\* snapshots with the prefix, keeps the `keep` most recently created of them
\* and destroys exactly the others
C21_CleanupKeepsNewest ==
    [][(j_pc = "clean" /\ j_pc' = "idle" /\ j_reason' = "ok" /\ LibExecutes(j_dry))
       => /\ j_src'.snaps = KeepsNewest(j_src.snaps, j_cfg.max_snapshots)
          /\ j_dst'.snaps = KeepsNewest(j_dst.snaps, j_cfg.max_snapshots)]_vars

\* the places, in the source's creation order, of the snapshots that the
\* destination holds under the same name with the same guid
CommonPlaces(src, dst) ==
    {i \in DOMAIN src.snaps :
        /\ DictHas(dst.snaps, src.snaps[i].name)
        /\ DictGet(dst.snaps, src.snaps[i].name) = src.snaps[i].guid}

\* C35: whenever run_job has planned Incremental, the base is the most
\* recently created of the snapshots both sides held, under the same name
\* and guid, when the run started
C35_BaseIsNewestCommon ==
    (Planned /\ j_plan.mode = "Incremental") =>
        LET places == CommonPlaces(j_start.src, j_start.dst)
        IN /\ places # {}
           /\ j_plan.base =
                  j_start.src.snaps[CHOOSE i \in places : \A k \in places : k <= i].name

\* C37: the step in which the transfer fails ends the run with the result
\* false, leaves the source as it was (the snapshot created for the run
\* included) and issues no listing, snapshot, destroy or rename: nothing
\* follows the pipeline
C37_NothingAfterPipelineFailure ==
    [][(j_pc = "transfer" /\ j_pc' = "idle") =>
          /\ j_result' = "false"
          /\ j_src' = j_src
          /\ (j_spawned' \ j_spawned) \cap {"list", "snapshot", "destroy", "rename"} = {}]_vars

\* a real run whose pipeline was started and failed: the run has ended
\* false and the source still has the snapshot created for it
C37_Witness ==
    /\ j_pc = "idle"
    /\ j_result = "false"
    /\ j_reason = "transfer"
    /\ "stage" \in j_spawned
    /\ HasSnap(j_src, j_new)
    /\ ~HasSnap(j_start.src, j_new)

\* the step is a setup_sync_snapshot that returns True
SetupReportsSuccess ==
    /\ j_pc = "sync"
    /\ j_pc' = "clean"
    /\ \E f \in {"none", "src-destroy", "src-make", "dst-destroy", "dst-make"} :
          LET r == SetupBoth(j_src, j_dst, j_plan.mode = "Full", j_new, j_next_guid,
                             LibExecutes(j_dry), f)
          IN r.ok /\ j_src' = r.src /\ j_dst' = r.dst

\* source and destination hold the sync snapshot with the same guid
SyncSnapshotShared(src, dst) ==
    /\ HasSnap(src, SyncName)
    /\ HasSnap(dst, SyncName)
    /\ DictGet(src.snaps, SyncName) = DictGet(dst.snaps, SyncName)

\* C39: in a run that is not a dry run, Full or Incremental, a
\* setup_sync_snapshot that reports success leaves the sync snapshot on the
\* source and on the destination with the same guid
C39_SyncSnapshotSharedAfterSetup ==
    [][(SetupReportsSuccess /\ LibExecutes(j_dry)) =>
           SyncSnapshotShared(j_src', j_dst')]_vars

\* C40: with max_snapshots at least 1 and the pools changed by run_job
\* alone, a run that starts after a real run_job has returned True, and in
\* which no command fails, finds a snapshot that source and destination
\* hold under the same name with the same guid, and plans Incremental.
C40_IncrementalOnceSucceeded ==
    (/\ j_first.set /\ j_first.real /\ j_first.result = "true"
     /\ j_cfg.max_snapshots >= 1
     /\ j_faults = 0
     /\ j_runs >= 2 /\ ~LibDryRun(j_dry) /\ Planned)
        => /\ CommonPlaces(j_start.src, j_start.dst) # {}
           /\ j_plan.mode = "Incremental"

-----------------------------------------------------------------------------
(* ---------------- Claims on execute_transfer_pipeline (SpecPipe) ---------------- *)

\* C9: when execute_transfer_pipeline has returned, it returned success if
\* and only if every stage process exited with code zero (or the call was a
\* dry run), and every stage it spawned has been waited on.
C9_SuccessIffAllZeroAndAllWaited ==
    x_pc = "returned" =>
        /\ x_success <=> (x_dry_run \/ \A i \in 1..x_stages :
                              x_processes[i] = [state |-> "reaped", returncode |-> 0])
        /\ \A i \in 1..x_stages : x_processes[i].state \in {"none", "reaped"}

\* C27: on every exit path, when execute_transfer_pipeline has returned,
\* every stage process that was spawned has exited and has been waited on
C27_NoStageRunningOrUnreaped ==
    x_pc = "returned" =>
        \A i \in 1..x_stages : x_processes[i].state \notin {"running", "exited", "killed"}

\* C28: on every exit path, when execute_transfer_pipeline has returned,
\* every pipe handle the parent got from a stage is closed; and once all
\* stages are launched the parent holds no open handle on an inter-stage pipe
C28_NoPipeHandleLeftOpen ==
    /\ x_pc = "returned" =>
           \A i \in DOMAIN x_handles :
               x_handles[i].stdout # "open" /\ x_handles[i].stderr # "open"
    /\ x_pc \in {"wait", "join"} =>
           \A i \in DOMAIN x_handles : x_handles[i].stdout # "open"

\* every stage was started and has ended by itself
AllStagesEnded ==
    \A i \in 1..x_stages :
        /\ x_processes[i].state \in {"exited", "reaped"}
        /\ x_processes[i].returncode \in {0, 1}

\* the executor is past the launch loop and every stage has ended by itself
AllStagesExited ==
    /\ x_pc \in {"wait", "join", "finally"}
    /\ AllStagesEnded

\* C31: once every stage process has exited, execute_transfer_pipeline
\* returns, whether or not the reader thread ever ends (the join is bounded
\* by its timeout); and the result it returns is then success exactly when
\* every stage exited with code zero, also with the thread still alive
C31_ReturnsOnExitCodesAlone ==
    /\ [](x_pc = "returned" /\ AllStagesEnded =>
              (x_success <=> \A i \in 1..x_stages : x_processes[i].returncode = 0))
    /\ (AllStagesExited ~> x_pc = "returned")

\* the executor returned success while the reader thread was still alive
C31_Witness ==
    /\ x_pc = "returned"
    /\ x_stages > 1
    /\ x_success
    /\ x_stderr_thread = "alive"
    /\ \A i \in 1..x_stages : x_processes[i] = [state |-> "reaped", returncode |-> 0]

-----------------------------------------------------------------------------
(* ---------------- Claims on the stderr reader (SpecReader) ---------------- *)

\* the values of a sequence that exceed every value before them
RECURSIVE RisingFrom(_, _)
RisingFrom(values, floor) ==
    IF values = <<>> THEN <<>>
    ELSE IF Head(values) > floor
         THEN <<Head(values)>> \o RisingFrom(Tail(values), Head(values))
         ELSE RisingFrom(Tail(values), floor)

\* C10 as stated: the reader reports exactly the parsed values that are
\* strictly greater than every value parsed before them, in stream order.
C10_ReportsEveryNewMaximum == r_updates = RisingFrom(r_parsed, 0 - 1)

\* C10: the reader reports exactly the parsed values that are greater than
\* zero and strictly greater than every value parsed before them, in stream
\* order; a lower or repeated value produces no update.
C10_ReportsEveryPositiveNewMaximum == r_updates = RisingFrom(r_parsed, 0)

\* the stream 2, 1, 3 has been read and has given the updates 2, 3
C10_Witness ==
    /\ r_pc = "done"
    /\ r_parsed = <<2, 1, 3>>
    /\ r_updates = <<2, 3>>

\* the lib reader has finished a stream with a known total above the last
\* reported value
LibEndedBelowTotal ==
    /\ r_pc = "done"
    /\ r_variant = "lib"
    /\ r_total_size # NoTotal
    /\ r_total_bytes_reported < r_total_size

\* C11 as stated: at end-of-file with a known total T and a last reported
\* value C < T the lib reader makes exactly one final update, which brings
\* completed to T, for every such C and T.
C11_FinalUpdateReachesTotal ==
    LibEndedBelowTotal =>
        /\ r_final = <<r_total_size>>
        /\ r_completed = r_total_size

\* C11: at end-of-file with a known total T and a last reported value
\* C < T the lib reader makes exactly one final update, which brings
\* completed to T, when T - C is less than a tenth of T; when T - C is more
\* than a tenth of T it makes no final update and completed stays at C.
C11_FinalUpdateWithinTenth ==
    LibEndedBelowTotal =>
        LET gap == r_total_size - r_total_bytes_reported
        IN /\ 10 * gap < r_total_size =>
                /\ r_final = <<r_total_size>>
                /\ r_completed = r_total_size
           /\ 10 * gap > r_total_size =>
                /\ r_final = <<>>
                /\ r_completed = r_total_bytes_reported

\* the stream ended one below a total of more than ten and the final update
\* has brought completed to the total
C11_Witness ==
    /\ LibEndedBelowTotal
    /\ r_total_bytes_reported = NearValue
    /\ r_total_size = NearValue + 1
    /\ r_final = <<r_total_size>>

\* C30: however the executor's close of the pipe and the reader thread
\* interleave, the thread does not end through an unhandled error, and it
\* reaches its end-of-stream step only after it has processed every line
\* the Send stage wrote
C30_ReaderDrainsThenEnds ==
    /\ r_pc # "died"
    /\ r_pc \in {"eof", "done"} => r_stream = <<>>

-----------------------------------------------------------------------------
(* ---------------- Claims on the size parser (SpecSize) ---------------- *)

\* an input read as a decimal number, an optional unit and an optional B
StatedForm(str) ==
    LET noB    == IF EndsWith(str, "B") THEN DropLast(str) ELSE str
        unit   == IF noB # <<>> /\ noB[Len(noB)] \in Units
                  THEN noB[Len(noB)] ELSE "B"
        number == IF unit = "B" THEN noB ELSE DropLast(noB)
        dots   == {i \in DOMAIN number : number[i] = "."}
        point  == IF dots = {} THEN Len(number) + 1 ELSE CHOOSE i \in dots : TRUE
        whole  == SubSeq(number, 1, point - 1)
        frac   == SubSeq(number, point + 1, Len(number))
    IN [decimal |-> /\ Cardinality(dots) <= 1
                    /\ \A i \in DOMAIN number : i \in dots \/ IsDigit(number[i])
                    /\ Len(whole) >= 1
                    /\ dots # {} => Len(frac) >= 1,
        whole |-> whole, frac |-> frac, unit |-> unit]

\* the returned value is the one stated for the four examples and for every
\* input of the stated form
SizeValuesAsStated ==
    z_pc = "done" =>
        /\ z_input = <<"1", ".", "5", "G">> =>
               z_result.value = Base1024(1610612736)
        /\ z_input = <<"1", "0", "0", "M">> =>
               z_result.value = Base1024(104857600)
        /\ z_input \in {<<>>, <<"g", "a", "r", "b", "a", "g", "e">>} =>
               z_result.value = <<>>
        /\ LET form == StatedForm(z_input)
           IN form.decimal =>
                  z_result.value =
                      Scale(Base1024(DecValue(form.whole)), DecValue(form.frac),
                            Pow10(Len(form.frac)), UnitPower(form.unit))

\* C12: _parse_zfs_size returns 1610612736 for "1.5G", 104857600 for
\* "100M", 0 for "" and for "garbage"; for a decimal number with an optional
\* unit K, M, G, T or P and an optional trailing B it returns the number
\* times 1024^n truncated to an integer; and for every input string it
\* returns an integer and raises nothing.
C12_ParseSizeTotal ==
    /\ SizeValuesAsStated
    /\ z_pc = "done" => z_result.raised = "none"

\* a size token of syncoid_progress_pattern, [\d.]+\s*[KMGTP]i?B without
\* regard to case, read as a decimal number and a unit
SizeToken(str) ==
    LET upper  == Upper(str)
        n      == Len(upper)
        at     == IF n >= 2 /\ upper[n - 1] = "I" THEN n - 2 ELSE n - 1
        number == IF at >= 2 THEN SubSeq(upper, 1, at - 1) ELSE <<>>
    IN [matches |-> /\ n >= 3
                    /\ upper[n] = "B"
                    /\ at >= 2
                    /\ upper[at] \in Units
                    /\ Head(number) # " "
                    /\ \A i \in DOMAIN Strip(number) :
                           IsDigit(Strip(number)[i]) \/ Strip(number)[i] = "."
                    /\ Float(number).kind = "number",
        number |-> Float(number),
        unit |-> IF at >= 1 /\ at <= n THEN upper[at] ELSE "B"]

\* C33: for every size token the progress pattern admits (a number, optional
\* blanks, a unit K, M, G, T or P, then B or iB), the value the app reader
\* puts into the ProgressUpdate, _parse_zfs_size of the token, is the number
\* of bytes the token denotes
C33_TokenYieldsDenotedBytes ==
    (z_pc = "done" /\ z_variant = "app" /\ SizeToken(z_input).matches) =>
        LET token == SizeToken(z_input)
        IN z_result = [raised |-> "none",
                       value |-> Scale(Base1024(token.number.whole), token.number.num,
                                       token.number.den, UnitPower(token.unit))]

-----------------------------------------------------------------------------
(* ---------------- Claims on both job runners (SpecRunners) ---------------- *)

\* a snapshot-creating command of the worker: sanoid --take-snapshots
TakeIssued == \E c \in t_issued : Contains(c.argv, "--take-snapshots")

\* the syncoid command of the worker, with or without -n
SyncoidIssued == \E c \in t_issued : c.argv[1] = "libs/sanoid/syncoid"

\* C13: when the reachability check of a host or the existence check of the
\* source dataset fails, the run ends without success and has issued no
\* snapshot-creating command (zfs snapshot in run_job, sanoid
\* --take-snapshots in the worker); and the pipeline (the stages of run_job,
\* syncoid in the worker) is started only after the source snapshot step of
\* the same run has returned success.
C13_ChecksBeforeSnapshotBeforePipeline ==
    /\ [](j_pc = "idle" /\ j_reason \in {"ssh", "no-source"} =>
              /\ j_result \in {"false", "exited"}
              /\ "snapshot" \notin j_spawned
              /\ "stage" \notin j_spawned)
    /\ [](t_src_exists = "false" =>
              /\ ~TakeIssued
              /\ ~SyncoidIssued
              /\ t_posted # "true"
              /\ t_pc = "done" => t_posted = "false")
    /\ [](SyncoidIssued => t_snap_success = "true")
    /\ [][("stage" \in j_spawned' /\ "stage" \notin j_spawned) =>
              /\ j_pc = "transfer"
              /\ j_new = TimeName(j_clock)
              /\ LibExecutes(j_dry) => HasSnap(j_src, j_new)]_vars

\* a run of run_job has ended failed on a missing source dataset, with no
\* snapshot command issued
C13_Witness ==
    /\ j_pc = "idle"
    /\ j_reason = "no-source"
    /\ j_result = "false"
    /\ "snapshot" \notin j_spawned

\* C14: when retention cleanup fails after a successful transfer (a
\* snapshot listing or a zfs destroy of clean_old_snapshots in run_job, the
\* sanoid prune command in the worker), the run still reports success:
\* run_job returns True, the worker posts TransferFinished(True) and the
\* screen shows success.
C14_CleanupFailureKeepsSuccess ==
    /\ j_pc = "idle" /\ j_reason = "cleanup-failed" => j_result = "true"
    /\ t_prune = "failed" =>
           /\ t_success
           /\ t_pc = "done" => t_posted = "true"
           /\ t_finished => t_transfer_success

\* the sanoid prune command has failed and the screen shows success
C14_Witness ==
    /\ t_prune = "failed"
    /\ t_posted = "true"
    /\ t_finished
    /\ t_transfer_success

\* the run of run_job has reached its cleanup step
JobCleanupInvoked == j_pc = "idle" /\ j_reason \in {"ok", "cleanup-failed"}

\* the worker has called the sanoid prune step
TuiCleanupInvoked == t_prune \in {"ok", "failed"}

\* C15: in both runners retention cleanup is invoked only when the transfer
\* returned success and dry run is not requested for the job, by the global
\* flag or by the job's entry; after a failed transfer, or in a dry run, no
\* cleanup step is invoked.
C15_CleanupOnlyAfterRealSuccess ==
    /\ JobCleanupInvoked => j_success /\ ~DryRunRequested(j_dry)
    /\ TuiCleanupInvoked => t_success /\ ~DryRunRequested(RunConfig)

-----------------------------------------------------------------------------
(* ---------------- Claims on the worker (SpecTui) ---------------- *)

\* the sanoid prune command has been handed to execute_command for host
PruneIssuedOn(host) ==
    \E c \in t_issued : Contains(c.argv, "--prune-snapshots") /\ c.host = host

\* C16: after a successful transfer that is not a dry run, the worker has run
\* the prune step for the source host and for the destination host by the
\* time it posts its result.
C16_PrunesSourceAndDestination ==
    (t_pc \in {"post", "done"} /\ t_success /\ ~DryRunRequested(RunConfig)) =>
        /\ PruneIssuedOn(t_cfg.source_host)
        /\ PruneIssuedOn(t_cfg.dest_host)

\* C20: when quit is requested while the syncoid process of the transfer
\* is running, that process is eventually sent terminate or kill, and the
\* job is eventually shown as finished with success = false.
C20_QuitStopsTransfer ==
    /\ (t_quit /\ t_proc = "running") ~> (t_proc \in {"terminated", "killed"})
    /\ t_quit_running ~> (t_finished /\ ~t_transfer_success)

\* the step in which perform_transfer returns to the worker
PerformTransferReturns ==
    t_pc \in {"transfer", "communicate"} /\ t_pc' = "prune"

\* C38: a run of run_transfer_worker that is not cancelled posts
\* TransferFinished exactly once, whichever way it went (success, missing
\* source dataset, failed snapshot step, failed transfer, exception): the
\* message is posted only by the finally block and only while none was
\* posted, a finished run has posted, and every run finishes or is
\* cancelled.  success = true is posted only when perform_transfer returned
\* true: the posted value is the worker's success, which becomes true only
\* in the step in which perform_transfer returns, and for a real run only
\* with a syncoid process that ended with return code 0.
C38_PostsFinishedExactlyOnce ==
    /\ [][t_posted' # t_posted =>
              /\ t_posted = "none" /\ t_pc = "post" /\ t_pc' = "done"
              /\ t_posted' = "true" => t_success]_vars
    /\ [][t_success' /\ ~t_success => PerformTransferReturns]_vars
    /\ [](t_success /\ ~AppDryRun(RunConfig) => t_proc = "exited" /\ t_rc = 0)
    /\ [](t_pc = "done" => t_posted # "none")
    /\ <>(t_pc \in {"done", "cancelled"})

\* a real run whose syncoid ended with return code 0 has posted
\* TransferFinished(True) after its prune step failed
C38_Witness ==
    /\ t_pc = "done"
    /\ t_posted = "true"
    /\ ~AppDryRun(RunConfig)
    /\ t_rc = 0
    /\ t_prune = "failed"

-----------------------------------------------------------------------------
(* ---------------- Claims on main (SpecMain) ---------------- *)

\* C22: a failed job, a failed host verification included, makes run_job
\* return false and does not end the process: the process exits only after
\* run_job has returned for every selected job, with code 0 when every job
\* succeeded and 1 otherwise
C22_FailedJobDoesNotEndProcess ==
    m_exit # NoExit =>
        /\ Len(m_results) = Len(m_jobs)
        /\ m_exit.code = IF \A k \in DOMAIN m_results : m_results[k] THEN 0 ELSE 1

-----------------------------------------------------------------------------
(* ---------------- Claims on the progress of the screen (SpecScreen) ---------------- *)

C29_PostedCompletedNeverDecreases ==
    ~u_dry => \A a, b \in DOMAIN u_events : a < b =>
                u_events[a].completed <= u_events[b].completed

IsRealSyncoid(argv) ==
    /\ Basename(Head(argv)) = "syncoid"
    /\ ~\E i \in 2..Len(argv) : argv[i] = "-n" /\ argv[i - 1] # "--sshoption"

\* C34: under dry run no replicating syncoid command is handed to a
\* process, at most one command is, and execute_syncoid_transfer returns
\* success whether the estimate was parsed, was not found or failed
C34_DryRunSpawnsEstimateOnly ==
    u_dry =>
        /\ \A k \in DOMAIN u_spawned : ~IsRealSyncoid(u_spawned[k])
        /\ Len(u_spawned) <= 1
        /\ u_w_pc \in {"final", "finished", "done"} => u_success

-----------------------------------------------------------------------------
(* ---------------- Claims on listings with child datasets (SpecList) ---------------- *)

\* C36: with child datasets in the listings, find_verified_common_snapshots
\* returns a name only if the source dataset itself and the destination
\* dataset itself both have a snapshot of that name, with equal guids
C36_CommonByOwnSnapshots ==
    l_pc = "done" =>
        \A k \in DOMAIN l_common :
            \E n \in DOMAIN ListNames :
                /\ ListNames[n] = l_common[k]
                /\ l_src["self"][n] # 0
                /\ l_src["self"][n] = l_dst["self"][n]

-----------------------------------------------------------------------------
(* ---------------- Specifications ---------------- *)

NextCmd == ExecuteCommand

InitCmd == CmdInit /\ PlanIdle /\ JobIdle /\ PipeIdle /\ ReaderIdle /\ SizeIdle /\ TuiIdle /\ MainIdle /\ ScreenIdle /\ ListIdle

SpecCmd == InitCmd /\ [][NextCmd]_vars

NextPlan == FindCommon \/ PlanFirst \/ PlanAgain

InitPlan == PlanInit /\ CmdIdle /\ JobIdle /\ PipeIdle /\ ReaderIdle /\ SizeIdle /\ TuiIdle /\ MainIdle /\ ScreenIdle /\ ListIdle

SpecPlan == InitPlan /\ [][NextPlan]_vars

NextJob ==
    \/ StartRun
    \/ Verify
    \/ CheckDatasets
    \/ Plan
    \/ CreateSnapshot
    \/ Transfer
    \/ SetupSync
    \/ CleanOld

InitJob == JobInit /\ CmdIdle /\ PlanIdle /\ PipeIdle /\ ReaderIdle /\ SizeIdle /\ TuiIdle /\ MainIdle /\ ScreenIdle /\ ListIdle

SpecJob == InitJob /\ [][NextJob]_vars

NextPipe ==
    \/ DryRunReturn
    \/ Popen
    \/ PopenRaises
    \/ StageExits
    \/ ThreadEnds
    \/ Wait
    \/ JoinThread
    \/ Finally

InitPipe == PipeInit /\ CmdIdle /\ PlanIdle /\ JobIdle /\ ReaderIdle /\ SizeIdle /\ TuiIdle /\ MainIdle /\ ScreenIdle /\ ListIdle

SpecPipe == InitPipe /\ [][NextPipe]_vars

\* the executor's own steps are taken when they can be: the calling thread
\* runs on, and the join gives up after its timeout; nothing is assumed of
\* the stage processes or of the reader thread
FairPipe ==
    /\ WF_vars(DryRunReturn)
    /\ WF_vars(Popen)
    /\ WF_vars(Wait)
    /\ WF_vars(JoinThread)
    /\ WF_vars(Finally)

SpecPipeFair == InitPipe /\ [][NextPipe]_vars /\ FairPipe

NextReader ==
    \/ ReadLine
    \/ ReadEOF
    \/ EndOfStream
    \/ ExecutorCloses
    \/ ReadClosed

InitReader == ReaderInit /\ CmdIdle /\ PlanIdle /\ JobIdle /\ PipeIdle /\ SizeIdle /\ TuiIdle /\ MainIdle /\ ScreenIdle /\ ListIdle

SpecReader == InitReader /\ [][NextReader]_vars

NextSize == ParseSize

InitSize == SizeInit /\ CmdIdle /\ PlanIdle /\ JobIdle /\ PipeIdle /\ ReaderIdle /\ TuiIdle /\ MainIdle /\ ScreenIdle /\ ListIdle

SpecSize == InitSize /\ [][NextSize]_vars

NextTui ==
    \/ TuiCheckSource
    \/ TuiCheckDest
    \/ TuiTake
    \/ TuiTransferDry
    \/ TuiSpawn
    \/ TuiSpawnRaises
    \/ TuiSyncoidExits
    \/ TuiCommunicate
    \/ TuiPrune
    \/ TuiPost
    \/ on_transfer_finished
    \/ action_request_quit
    \/ TuiCancel

InitTui == TuiInit /\ CmdIdle /\ PlanIdle /\ JobIdle /\ PipeIdle /\ ReaderIdle /\ SizeIdle /\ MainIdle /\ ScreenIdle /\ ListIdle

SpecTui == InitTui /\ [][NextTui]_vars

NextRunners ==
    \/ StartRun
    \/ Verify
    \/ CheckDatasets
    \/ Plan
    \/ CreateSnapshot
    \/ Transfer
    \/ SetupSync
    \/ CleanOld
    \/ TuiCheckSource
    \/ TuiCheckDest
    \/ TuiTake
    \/ TuiTransferDry
    \/ TuiSpawn
    \/ TuiSpawnRaises
    \/ TuiSyncoidExits
    \/ TuiCommunicate
    \/ TuiPrune
    \/ TuiPost
    \/ on_transfer_finished
    \/ action_request_quit
    \/ TuiCancel

\* one behaviour follows one of the two runners
InitRunners ==
    /\ (JobInit /\ TuiIdle) \/ (TuiInit /\ JobIdle)
    /\ CmdIdle /\ PlanIdle /\ PipeIdle /\ ReaderIdle /\ SizeIdle /\ MainIdle /\ ScreenIdle /\ ListIdle

SpecRunners == InitRunners /\ [][NextRunners]_vars

\* the worker, the syncoid process and the message handler keep going; the
\* user need not quit, and the exiting app need not cancel the worker
FairTui ==
    /\ WF_vars(TuiCheckSource)
    /\ WF_vars(TuiCheckDest)
    /\ WF_vars(TuiTake)
    /\ WF_vars(TuiTransferDry)
    /\ WF_vars(TuiSpawn \/ TuiSpawnRaises)
    /\ WF_vars(TuiSyncoidExits)
    /\ WF_vars(TuiCommunicate)
    /\ WF_vars(TuiPrune)
    /\ WF_vars(TuiPost)
    /\ WF_vars(on_transfer_finished)

SpecTuiFair == InitTui /\ [][NextTui]_vars /\ FairTui

NextMain ==
    \/ MainNextJob
    \/ MainVerifySource
    \/ MainVerifyDest
    \/ MainRunJob
    \/ MainFinish

InitMain == MainInit /\ CmdIdle /\ PlanIdle /\ JobIdle /\ PipeIdle /\ ReaderIdle /\ SizeIdle /\ TuiIdle /\ ScreenIdle /\ ListIdle

SpecMain == InitMain /\ [][NextMain]_vars

NextScreen ==
    \/ ScreenInitial
    \/ ScreenDryRun
    \/ ScreenSpawn
    \/ ScreenSpawnRaises
    \/ ScreenCommunicateReads
    \/ ScreenCommunicateReturns
    \/ ScreenJoin
    \/ ScreenFinal
    \/ ScreenPostFinished
    \/ ScreenReadLine
    \/ ScreenReadEOF
    \/ ScreenReadClosed
    \/ ScreenEndOfStream
    \/ on_progress_update
    \/ ScreenOnTransferFinished

InitScreen == ScreenInit /\ CmdIdle /\ PlanIdle /\ JobIdle /\ PipeIdle /\ ReaderIdle /\ SizeIdle /\ TuiIdle /\ MainIdle /\ ListIdle

SpecScreen == InitScreen /\ [][NextScreen]_vars

NextList == FindCommonListed

InitList == ListInit /\ CmdIdle /\ PlanIdle /\ JobIdle /\ PipeIdle /\ ReaderIdle /\ SizeIdle /\ TuiIdle /\ MainIdle /\ ScreenIdle

SpecList == InitList /\ [][NextList]_vars

====
